---- MODULE Spec2Model ----
(***************************************************************************)
(* Model of the awesome-omarchy TUI core: the markdown-to-catalog          *)
(* extractor (ReadmeParser::parse, parser.rs), the index builder           *)
(* (build_search_index / index_text, parser.rs) and the query engine       *)
(* (SearchIndex::add_term / search, models.rs).                            *)
(*                                                                         *)
(* Strings are sequences of one-character strings, so that trim, find,     *)
(* contains, to_lowercase and split_whitespace are computed and not        *)
(* assumed.  Option<T> is <<>> (None) or <<x>> (Some(x)).  usize indices   *)
(* are 0-based as in the source; Sequences are 1-based, so element i of a  *)
(* Vec v is v[i + 1].                                                      *)
(***************************************************************************)
EXTENDS Integers, Sequences, FiniteSets, TLC

(***************************************************************************)
(* Bounds of the model.                                                    *)
(***************************************************************************)
\* Number of markdown blocks (heading, paragraph, list) of one document.
MaxBlocks == 3
\* Length of the whitespace-only documents.
MaxBlank == 2
\* Number of add_term calls that build an index by hand.
MaxTerms == 3
\* Length of the item texts the splitter is called with.
MaxText == 6
\* Number of path segments of the urls the link filter is called with.
MaxSegments == 2
\* Number of words of the headers the section policy is called with.
MaxWords == 2

(***************************************************************************)
(* str: the std operations the code uses.                                  *)
(***************************************************************************)
None == <<>>
Some(x) == <<x>>

\* char::is_whitespace, on the characters the model uses.
Whitespace == {" ", "\n", "\t"}

UpperCase == <<"A","B","C","D","E","F","G","H","I","J","K","L","M","N","O","P","Q","R","S","T","U","V","W","X","Y","Z">>
LowerCase == <<"a","b","c","d","e","f","g","h","i","j","k","l","m","n","o","p","q","r","s","t","u","v","w","x","y","z">>
Digits == <<"0","1","2","3","4","5","6","7","8","9">>

Range(s) == {s[i] : i \in 1..Len(s)}

\* char::is_alphanumeric
Alphanumeric == Range(UpperCase) \cup Range(LowerCase) \cup Range(Digits)

\* The lowercase letter of each uppercase letter.
LowerMap ==
    [c \in Range(UpperCase) |-> LowerCase[CHOOSE i \in 1..26 : UpperCase[i] = c]]

\* char::to_lowercase
ToLowerChar(c) == IF c \in DOMAIN LowerMap THEN LowerMap[c] ELSE c

\* str::to_lowercase
ToLower(s) == [i \in 1..Len(s) |-> ToLowerChar(s[i])]

RECURSIVE TrimStart(_)
\* str::trim_start
TrimStart(s) ==
    IF s # <<>> /\ Head(s) \in Whitespace THEN TrimStart(Tail(s)) ELSE s

RECURSIVE TrimEnd(_)
\* str::trim_end
TrimEnd(s) ==
    IF s # <<>> /\ s[Len(s)] \in Whitespace
    THEN TrimEnd(SubSeq(s, 1, Len(s) - 1))
    ELSE s

\* str::trim
Trim(s) == TrimEnd(TrimStart(s))

\* str::starts_with
StartsWith(s, p) == Len(p) <= Len(s) /\ SubSeq(s, 1, Len(p)) = p

\* str::ends_with
EndsWith(s, p) ==
    Len(p) <= Len(s) /\ SubSeq(s, Len(s) - Len(p) + 1, Len(s)) = p

\* The 0-based offsets at which p occurs in s.
Occurrences(s, p) ==
    {i \in 0..(Len(s) - Len(p)) : SubSeq(s, i + 1, i + Len(p)) = p}

\* str::contains
Contains(s, p) ==
    \E i \in 0..(Len(s) - Len(p)) : SubSeq(s, i + 1, i + Len(p)) = p

\* str::find: Some(offset of the first occurrence) or None.
Find(s, p) ==
    IF Occurrences(s, p) = {}
    THEN None
    ELSE Some(CHOOSE i \in Occurrences(s, p) :
                 \A j \in Occurrences(s, p) : i <= j)

\* str::matches(c).count()
CountChar(s, c) == Cardinality({i \in 1..Len(s) : s[i] = c})

RECURSIVE SplitWhitespace(_)
\* str::split_whitespace: the maximal runs of non-whitespace, in order.
SplitWhitespace(s) ==
    LET t == TrimStart(s)
        WordEnd == IF \E i \in 1..Len(t) : t[i] \in Whitespace
                   THEN (CHOOSE i \in 1..Len(t) :
                            /\ t[i] \in Whitespace
                            /\ \A j \in 1..(i - 1) : t[j] \notin Whitespace) - 1
                   ELSE Len(t)
    IN  IF t = <<>>
        THEN <<>>
        ELSE <<SubSeq(t, 1, WordEnd)>>
                 \o SplitWhitespace(SubSeq(t, WordEnd + 1, Len(t)))

(***************************************************************************)
(* ReadmeParser::new: the fixed tables of the parser.                      *)
(***************************************************************************)
known_sections == <<
    <<"O","f","f","i","c","i","a","l"," ","R","e","s","o","u","r","c","e","s">>,
    <<"A","l","t","e","r","n","a","t","i","v","e"," ","I","m","p","l","e","m","e","n","t","a","t","i","o","n","s">>,
    <<"T","h","e","m","e","s">>,
    <<"D","e","v","e","l","o","p","m","e","n","t"," ","T","o","o","l","s">>,
    <<"R","e","l","a","t","e","d"," ","P","r","o","j","e","c","t","s">>,
    <<"C","o","m","m","u","n","i","t","y"," ","R","e","s","o","u","r","c","e","s">>,
    <<"D","o","c","u","m","e","n","t","a","t","i","o","n">>,
    <<"T","u","t","o","r","i","a","l","s">>,
    <<"E","x","a","m","p","l","e","s">>,
    <<"L","i","b","r","a","r","i","e","s">>,
    <<"P","l","u","g","i","n","s">>,
    <<"E","x","t","e","n","s","i","o","n","s">>,
    <<"I","n","t","e","g","r","a","t","i","o","n","s">>,
    <<"T","e","s","t","i","n","g">>,
    <<"D","e","p","l","o","y","m","e","n","t">>,
    <<"M","o","n","i","t","o","r","i","n","g">>,
    <<"S","e","c","u","r","i","t","y">>,
    <<"P","e","r","f","o","r","m","a","n","c","e">>,
    <<"U","t","i","l","i","t","i","e","s">>,
    <<"R","e","s","o","u","r","c","e","s">> >>

exclusion_patterns == <<
    <<"C","o","n","t","e","n","t","s">>,
    <<"T","a","b","l","e"," ","o","f"," ","C","o","n","t","e","n","t","s">>,
    <<"T","O","C">>,
    <<"C","o","n","t","r","i","b","u","t","i","n","g">>,
    <<"L","i","c","e","n","s","e">>,
    <<"A","w","e","s","o","m","e">>,
    <<"B","a","d","g","e">> >>

category_indicators == <<
    <<"t","o","o","l","s">>,
    <<"l","i","b","r","a","r","i","e","s">>,
    <<"r","e","s","o","u","r","c","e","s">>,
    <<"p","r","o","j","e","c","t","s">>,
    <<"e","x","t","e","n","s","i","o","n","s">>,
    <<"p","l","u","g","i","n","s">>,
    <<"i","n","t","e","g","r","a","t","i","o","n","s">>,
    <<"f","r","a","m","e","w","o","r","k","s">>,
    <<"p","l","a","t","f","o","r","m","s">>,
    <<"s","e","r","v","i","c","e","s">>,
    <<"u","t","i","l","i","t","i","e","s">>,
    <<"a","p","p","s">>,
    <<"a","p","p","l","i","c","a","t","i","o","n","s">>,
    <<"i","m","p","l","e","m","e","n","t","a","t","i","o","n","s">>,
    <<"s","o","l","u","t","i","o","n","s">> >>

\* (pattern, tag) pairs of extract_tags, in table order.
tag_indicators == <<
    << <<"r","u","s","t">>, <<"r","u","s","t">> >>,
    << <<"p","y","t","h","o","n">>, <<"p","y","t","h","o","n">> >>,
    << <<"j","a","v","a","s","c","r","i","p","t">>, <<"j","a","v","a","s","c","r","i","p","t">> >>,
    << <<"t","y","p","e","s","c","r","i","p","t">>, <<"t","y","p","e","s","c","r","i","p","t">> >>,
    << <<"g","o","l","a","n","g">>, <<"g","o">> >>,
    << <<"j","a","v","a">>, <<"j","a","v","a">> >>,
    << <<"c","+","+">>, <<"c","p","p">> >>,
    << <<"c","l","i">>, <<"c","o","m","m","a","n","d","-","l","i","n","e">> >>,
    << <<"w","e","b">>, <<"w","e","b">> >>,
    << <<"a","p","i">>, <<"a","p","i">> >>,
    << <<"t","o","o","l">>, <<"t","o","o","l">> >>,
    << <<"l","i","b","r","a","r","y">>, <<"l","i","b","r","a","r","y">> >>,
    << <<"f","r","a","m","e","w","o","r","k">>, <<"f","r","a","m","e","w","o","r","k">> >>,
    << <<"p","l","u","g","i","n">>, <<"p","l","u","g","i","n">> >>,
    << <<"e","x","t","e","n","s","i","o","n">>, <<"e","x","t","e","n","s","i","o","n">> >> >>

\* pattern.to_lowercase(), for each exclusion pattern.
exclusion_patterns_lower ==
    [i \in 1..Len(exclusion_patterns) |-> ToLower(exclusion_patterns[i])]

\* section.to_lowercase(), for each known section.
known_sections_lower ==
    [i \in 1..Len(known_sections) |-> ToLower(known_sections[i])]

\* should_parse_section: the exclusion loop.
MatchesExclusion(header) ==
    LET header_lower == ToLower(header)
    IN  \E i \in 1..Len(exclusion_patterns) :
            Contains(header_lower, exclusion_patterns_lower[i])

\* should_parse_section: the known-section loop.
MatchesKnownSection(header) ==
    LET header_lower == ToLower(header)
    IN  \E i \in 1..Len(known_sections) :
            Contains(header_lower, known_sections_lower[i])

\* should_parse_section: the category-indicator loop.
MatchesCategory(header) ==
    LET header_lower == ToLower(header)
    IN  \E i \in 1..Len(category_indicators) :
            Contains(header_lower, category_indicators[i])

\* The policy with the default turned round: only the listed headers pass.
ShouldParseOnlyListed(header) ==
    IF MatchesExclusion(header) THEN FALSE
    ELSE IF MatchesKnownSection(header) THEN TRUE
    ELSE IF MatchesCategory(header) THEN TRUE
    ELSE FALSE

should_parse_section(header) ==
    IF MatchesExclusion(header) THEN FALSE
    ELSE IF MatchesKnownSection(header) THEN TRUE
    ELSE IF MatchesCategory(header) THEN TRUE
    ELSE TRUE

GitHubPrefix == <<"h","t","t","p","s",":","/","/","g","i","t","h","u","b",".","c","o","m","/">>

\* The filter with one '/' fewer asked for: an owner without a repository passes.
IsGithubLinkOwnerOnly(url) ==
    /\ StartsWith(url, GitHubPrefix)
    /\ CountChar(url, "/") >= 3
    /\ ~Contains(url, <<"/","i","s","s","u","e","s">>)
    /\ ~Contains(url, <<"/","w","i","k","i">>)
    /\ ~Contains(url, <<"/","r","e","l","e","a","s","e","s">>)

is_github_link(url) ==
    /\ StartsWith(url, GitHubPrefix)
    /\ CountChar(url, "/") >= 4
    /\ ~Contains(url, <<"/","i","s","s","u","e","s">>)
    /\ ~Contains(url, <<"/","w","i","k","i">>)
    /\ ~Contains(url, <<"/","r","e","l","e","a","s","e","s">>)

\* The splitter with the two separators tried in the other order.
SplitColonFirst(text0) ==
    LET text == Trim(text0)
        dash == Find(text, <<" ","-"," ">>)
        colon == Find(text, <<":"," ">>)
    IN  IF colon # None
        THEN << Trim(SubSeq(text, 1, colon[1])),
                Trim(SubSeq(text, colon[1] + 2 + 1, Len(text))) >>
        ELSE IF dash # None
        THEN << Trim(SubSeq(text, 1, dash[1])),
                Trim(SubSeq(text, dash[1] + 3 + 1, Len(text))) >>
        ELSE << text, <<>> >>

split_title_description(text0) ==
    LET text == Trim(text0)
        dash == Find(text, <<" ","-"," ">>)
        colon == Find(text, <<":"," ">>)
    IN  IF dash # None
        THEN << Trim(SubSeq(text, 1, dash[1])),
                Trim(SubSeq(text, dash[1] + 3 + 1, Len(text))) >>
        ELSE IF colon # None
        THEN << Trim(SubSeq(text, 1, colon[1])),
                Trim(SubSeq(text, colon[1] + 2 + 1, Len(text))) >>
        ELSE << text, <<>> >>

RECURSIVE TagsFrom(_, _)
\* extract_tags: the loop over tag_indicators from position i.
TagsFrom(description_lower, i) ==
    IF i > Len(tag_indicators)
    THEN <<>>
    ELSE (IF Contains(description_lower, tag_indicators[i][1])
          THEN <<tag_indicators[i][2]>>
          ELSE <<>>) \o TagsFrom(description_lower, i + 1)

extract_tags(description) == TagsFrom(ToLower(description), 1)

extract_repository_entry(text, url) ==
    LET td == split_title_description(text)
    IN  [title |-> td[1], url |-> url, description |-> td[2],
         tags |-> extract_tags(td[2])]

\* Section::new
NewSection(title) ==
    [title |-> title, entries |-> <<>>, raw_content |-> <<>>, entry_count |-> 0]

\* ReadmeMetadata::default
DefaultMetadata ==
    [title |-> <<"A","w","e","s","o","m","e"," ","O","m","a","r","c","h","y">>,
     description |-> <<"A"," ","c","u","r","a","t","e","d"," ","l","i","s","t"," ","o","f"," ","a","w","e","s","o","m","e"," ","r","e","s","o","u","r","c","e","s">>,
     last_updated |-> None,
     total_entries |-> 0]

\* SearchIndex::default
\* HashMap::new
EmptyMap == [k \in {} |-> k]

\* SearchIndex::default
DefaultIndex == [terms |-> EmptyMap, total_terms |-> 0]

\* ReadmeContent::default
DefaultContent ==
    [sections |-> <<>>, search_index |-> DefaultIndex, metadata |-> DefaultMetadata]

(***************************************************************************)
(* Index builder (parser.rs) and SearchIndex (models.rs).                  *)
(***************************************************************************)
\* SearchPriority
RepositoryName == "RepositoryName"
Description == "Description"
RawContent == "RawContent"

\* SearchIndex::add_term
add_term(index, term, location) ==
    LET key == ToLower(term)
        old == IF key \in DOMAIN index.terms THEN index.terms[key] ELSE <<>>
    IN  [terms |-> [t \in DOMAIN index.terms \cup {key} |->
                       IF t = key THEN Append(old, location) ELSE index.terms[t]],
         total_terms |-> index.total_terms + 1]

RECURSIVE KeepAlphanumeric(_)
\* index_text: word.chars().filter(|c| c.is_alphanumeric() || c.is_whitespace())
KeepAlphanumeric(word) ==
    IF word = <<>>
    THEN <<>>
    ELSE (IF Head(word) \in Alphanumeric \cup Whitespace
          THEN <<Head(word)>>
          ELSE <<>>) \o KeepAlphanumeric(Tail(word))

\* index_text: the cleaned form of one word.
CleanWord(word) == ToLower(Trim(KeepAlphanumeric(word)))

RECURSIVE IndexWordsLong(_, _, _)
\* IndexWords with the first length filter set to 4: words of 3 and 4 bytes are lost.
IndexWordsLong(words, location, index) ==
    IF words = <<>>
    THEN index
    ELSE LET word == Head(words)
             cleaned == CleanWord(word)
         IN  IF Len(word) > 4 /\ cleaned # <<>> /\ Len(cleaned) > 2
             THEN IndexWordsLong(Tail(words), location,
                                 add_term(index, cleaned, location))
             ELSE IndexWordsLong(Tail(words), location, index)

RECURSIVE IndexWords(_, _, _)
\* index_text: the loop over the words, with both length filters.
IndexWords(words, location, index) ==
    IF words = <<>>
    THEN index
    ELSE LET word == Head(words)
             cleaned == CleanWord(word)
         IN  IF Len(word) > 2 /\ cleaned # <<>> /\ Len(cleaned) > 2
             THEN IndexWords(Tail(words), location,
                             add_term(index, cleaned, location))
             ELSE IndexWords(Tail(words), location, index)

index_text(text, section_idx, entry_idx, priority, github_url, index) ==
    IndexWords(SplitWhitespace(text),
               [section_index |-> section_idx,
                entry_index |-> entry_idx,
                line_content |-> text,
                start_pos |-> 0,
                end_pos |-> Len(text),
                search_priority |-> priority,
                github_url |-> github_url],
               index)

\* IndexEntry indexing the section title beside the entry, as the line the
\* source keeps commented out would: a location with no entry.
IndexEntryAndSection(entry, section_idx, entry_idx, index) ==
    LET named == index_text(entry.title, section_idx, None,
                            RawContent, None, index)
    IN  IF entry.description # <<>>
        THEN index_text(entry.description, section_idx, Some(entry_idx),
                        Description, Some(entry.url), named)
        ELSE named

\* build_search_index: the body of the loop over the entries.
IndexEntry(entry, section_idx, entry_idx, index) ==
    LET named == index_text(entry.title, section_idx, Some(entry_idx),
                            RepositoryName, Some(entry.url), index)
    IN  IF entry.description # <<>>
        THEN index_text(entry.description, section_idx, Some(entry_idx),
                        Description, Some(entry.url), named)
        ELSE named

RECURSIVE IndexEntries(_, _, _, _)
\* build_search_index: the loop over the entries of one section, from entry_idx.
IndexEntries(entries, section_idx, entry_idx, index) ==
    IF entry_idx >= Len(entries)
    THEN index
    ELSE IndexEntries(entries, section_idx, entry_idx + 1,
                      IndexEntry(entries[entry_idx + 1], section_idx, entry_idx, index))

RECURSIVE IndexSections(_, _, _)
\* build_search_index: the loop over the sections, from section_idx.
IndexSections(sections, section_idx, index) ==
    IF section_idx >= Len(sections)
    THEN index
    ELSE IndexSections(sections, section_idx + 1,
                       IndexEntries(sections[section_idx + 1].entries,
                                    section_idx, 0, index))

build_search_index(sections) == IndexSections(sections, 0, DefaultIndex)

(***************************************************************************)
(* f64 scores.  A score is held in thousandths.  The products the code     *)
(* forms are exact in f64 except five, which IEEE-754 rounds by one unit   *)
(* in the last place: 0.8 * 1.5 = 1.2000000000000002 (above 0.6 * 2.0 =    *)
(* 1.2), 0.4 * 1.5 = 0.6000000000000001, 0.6 * 1.5 = 0.8999999999999999,   *)
(* 0.8 * 0.1 = 0.08000000000000002 and 0.4 * 0.1 = 0.04000000000000001.    *)
(* One thousandth stands for that unit, which keeps every comparison       *)
(* between two scores as the code makes it.                                *)
(***************************************************************************)
\* calculate_relevance_score, in tenths.
calculate_relevance_score(term, q) ==
    IF term = q THEN 10
    ELSE IF StartsWith(term, q) THEN 8
    ELSE IF EndsWith(term, q) THEN 6
    ELSE 4

\* SearchPriority::score_multiplier, in tenths.
score_multiplier(priority) ==
    CASE priority = RepositoryName -> 20
      [] priority = Description -> 15
      [] priority = RawContent -> 1

\* f64 multiplication of a base (tenths) by a multiplier (tenths), in thousandths.
F64Mul(base, mult) ==
    CASE base = 8 /\ mult = 15 -> 1201
      [] base = 4 /\ mult = 15 -> 601
      [] base = 6 /\ mult = 15 -> 899
      [] base = 8 /\ mult = 1 -> 81
      [] base = 4 /\ mult = 1 -> 41
      [] OTHER -> base * mult * 10

\* search: the closure of filter_map, for one location of a matching term.
LocationScore(term, q, location) ==
    F64Mul(calculate_relevance_score(term, q),
           score_multiplier(location.search_priority))

\* Aggregate keeping the score seen last and not the maximum.
AggregateLast(er, location, relevance_score) ==
    LET entry_key == <<location.section_index, location.entry_index>>
    IN  IF entry_key \in DOMAIN er
        THEN [er EXCEPT ![entry_key] =
                 [result |-> [er[entry_key].result EXCEPT
                                 !.relevance_score = relevance_score],
                  max |-> relevance_score]]
        ELSE [k \in DOMAIN er \cup {entry_key} |->
                 IF k = entry_key
                 THEN [result |-> [section_index |-> location.section_index,
                                   entry_index |-> location.entry_index,
                                   line_content |-> location.line_content,
                                   relevance_score |-> relevance_score,
                                   github_url |-> location.github_url],
                       max |-> relevance_score]
                 ELSE er[k]]

\* Aggregate without the overwrite of line_content: the text of a result is
\* that of the location visited first for its key.
AggregateFirstText(er, location, relevance_score) ==
    LET entry_key == <<location.section_index, location.entry_index>>
    IN  IF entry_key \in DOMAIN er
        THEN LET existing == er[entry_key]
             IN  [er EXCEPT ![entry_key] =
                     IF relevance_score > existing.max
                     THEN [result |-> [existing.result EXCEPT
                                          !.relevance_score = relevance_score],
                           max |-> relevance_score]
                     ELSE existing]
        ELSE [k \in DOMAIN er \cup {entry_key} |->
                 IF k = entry_key
                 THEN [result |-> [section_index |-> location.section_index,
                                   entry_index |-> location.entry_index,
                                   line_content |-> location.line_content,
                                   relevance_score |-> relevance_score,
                                   github_url |-> location.github_url],
                       max |-> relevance_score]
                 ELSE er[k]]

\* search: the closure of for_each, for one (entry_key, location, relevance_score).
Aggregate(er, location, relevance_score) ==
    LET entry_key == <<location.section_index, location.entry_index>>
    IN  IF entry_key \in DOMAIN er
        THEN LET existing == er[entry_key]
                 shown == IF location.search_priority = RepositoryName
                          THEN [existing.result EXCEPT
                                   !.line_content = location.line_content]
                          ELSE existing.result
             IN  [er EXCEPT ![entry_key] =
                     IF relevance_score > existing.max
                     THEN [result |-> [shown EXCEPT
                                          !.relevance_score = relevance_score],
                           max |-> relevance_score]
                     ELSE [result |-> shown, max |-> existing.max]]
        ELSE [k \in DOMAIN er \cup {entry_key} |->
                 IF k = entry_key
                 THEN [result |-> [section_index |-> location.section_index,
                                   entry_index |-> location.entry_index,
                                   line_content |-> location.line_content,
                                   relevance_score |-> relevance_score,
                                   github_url |-> location.github_url],
                       max |-> relevance_score]
                 ELSE er[k]]

RECURSIVE VisitLocationsRaw(_, _, _, _)
\* VisitLocations without the test that skips RawContent.
VisitLocationsRaw(term, q, locations, er) ==
    IF locations = <<>>
    THEN er
    ELSE VisitLocationsRaw(term, q, Tail(locations),
             Aggregate(er, Head(locations), LocationScore(term, q, Head(locations))))

RECURSIVE VisitLocations(_, _, _, _)
\* search: the locations of one matching term, in Vec order.
VisitLocations(term, q, locations, er) ==
    IF locations = <<>>
    THEN er
    ELSE LET location == Head(locations)
         IN  IF location.search_priority = RawContent
             THEN VisitLocations(term, q, Tail(locations), er)
             ELSE VisitLocations(term, q, Tail(locations),
                      Aggregate(er, location, LocationScore(term, q, location)))

\* The comparator with a and b exchanged: an ascending sort.
SortedBeforeAscending(a, b) == a.relevance_score <= b.relevance_score

\* search: the comparator of sort_by, b.relevance_score.partial_cmp(&a.relevance_score):
\* TRUE when a must stay before b.
SortedBefore(a, b) == a.relevance_score >= b.relevance_score

RECURSIVE InsertSorted(_, _)
\* One step of the stable sort: x goes after every element that stays before it.
InsertSorted(sorted, x) ==
    IF sorted = <<>>
    THEN <<x>>
    ELSE IF SortedBefore(Head(sorted), x)
         THEN <<Head(sorted)>> \o InsertSorted(Tail(sorted), x)
         ELSE <<x>> \o sorted

RECURSIVE SortBy(_)
\* slice::sort_by (stable).
SortBy(v) ==
    IF v = <<>>
    THEN <<>>
    ELSE InsertSorted(SortBy(SubSeq(v, 1, Len(v) - 1)), v[Len(v)])

\* The orders in which a HashMap may yield the keys in S.
IterationOrders(S) ==
    {o \in [1..Cardinality(S) -> S] :
        \A i, j \in 1..Cardinality(S) : i # j => o[i] # o[j]}

(***************************************************************************)
(* The token source: pulldown_cmark events.                                *)
(***************************************************************************)
Ev(kind, level, s) == [kind |-> kind, level |-> level, s |-> s]

StartHeading(level) == Ev("StartHeading", level, <<>>)
EndHeading == Ev("EndHeading", 0, <<>>)
StartLink(dest_url) == Ev("StartLink", 0, dest_url)
EndLink == Ev("EndLink", 0, <<>>)
Text(s) == Ev("Text", 0, s)
Code(s) == Ev("Code", 0, s)
StartList == Ev("StartList", 0, <<>>)
StartItem == Ev("StartItem", 0, <<>>)
EndItem == Ev("EndItem", 0, <<>>)
SoftBreak == Ev("SoftBreak", 0, <<>>)
\* Start/End of a paragraph, End of a list: the arm "_ => {}".
OtherEvent == Ev("Other", 0, <<>>)

UrlRust == <<"h","t","t","p","s",":","/","/","g","i","t","h","u","b",".","c","o","m","/","u","/","r">>
UrlWeb == <<"h","t","t","p","s",":","/","/","g","i","t","h","u","b",".","c","o","m","/","u","/","w">>
UrlWiki == <<"h","t","t","p","s",":","/","/","g","i","t","h","u","b",".","c","o","m","/","u","/","r","/","w","i","k","i">>
UrlDocs == <<"h","t","t","p","s",":","/","/","x",".","i","o","/","a","/","b">>

\* "- <inline>\n": a list of one item.
ListOf(inline) == <<StartList, StartItem>> \o inline \o <<EndItem, OtherEvent>>

\* "# Awesome"
BlockTitle == <<StartHeading(1), Text(<<"A","w","e","s","o","m","e">>), EndHeading>>
\* "# Tools"
BlockTitleTools == <<StartHeading(1), Text(<<"T","o","o","l","s">>), EndHeading>>
\* "## Tools"
BlockTools == <<StartHeading(2), Text(<<"T","o","o","l","s">>), EndHeading>>
\* "## Toc"
BlockToc == <<StartHeading(2), Text(<<"T","o","c">>), EndHeading>>
\* "### Libs ` `"
BlockLibs == <<StartHeading(3), Text(<<"L","i","b","s"," ">>), Code(<<" ">>), EndHeading>>
\* "See [x](https://github.com/u/w)\nmore"
BlockParagraph ==
    <<OtherEvent, Text(<<"S","e","e"," ">>), StartLink(UrlWeb), Text(<<"x">>), EndLink,
      SoftBreak, Text(<<"m","o","r","e">>), OtherEvent>>
\* "- [Rust](https://github.com/u/r) - fast cli"
BlockItemRust ==
    ListOf(<<StartLink(UrlRust), Text(<<"R","u","s","t">>), EndLink, Text(<<" ","-"," ","f","a","s","t"," ","c","l","i">>)>>)
\* "- [Go: web](https://github.com/u/w) - rusty api!"
BlockItemGo ==
    ListOf(<<StartLink(UrlWeb), Text(<<"G","o",":"," ","w","e","b">>), EndLink, Text(<<" ","-"," ","r","u","s","t","y"," ","a","p","i","!">>)>>)
\* "- [Doc](https://x.io/a/b)"
BlockItemDocs == ListOf(<<StartLink(UrlDocs), Text(<<"D","o","c">>), EndLink>>)
\* "- plain"
BlockItemPlain == ListOf(<<Text(<<"p","l","a","i","n">>)>>)
\* "- [](https://github.com/u/r)"
BlockItemNoText == ListOf(<<StartLink(UrlRust), EndLink>>)
\* "- [Rust](https://github.com/u/r) [w](https://github.com/u/r/wiki)"
BlockItemTwoLinks ==
    ListOf(<<StartLink(UrlRust), Text(<<"R","u","s","t">>), EndLink, Text(<<" ">>),
             StartLink(UrlWiki), Text(<<"w">>), EndLink>>)
\* "- [Rust](https://github.com/u/r)\n  - [Web](https://github.com/u/w)"
BlockItemNested ==
    ListOf(<<StartLink(UrlRust), Text(<<"R","u","s","t">>), EndLink>>
           \o ListOf(<<StartLink(UrlWeb), Text(<<"W","e","b">>), EndLink>>))

\* The blocks a document is made of.
Blocks ==
    {BlockTitle, BlockTitleTools, BlockTools, BlockToc, BlockLibs, BlockParagraph,
     BlockItemRust, BlockItemGo, BlockItemDocs, BlockItemPlain, BlockItemNoText,
     BlockItemTwoLinks, BlockItemNested}

\* The documents: the whitespace-only ones, and one that has text.
BlankContents ==
    UNION {[1..n -> Whitespace] : n \in 0..MaxBlank}
TextContents == {<<" ","x","\n">>}

\* The queries of the model.
Queries == {<<"r","u","s","t">>, <<"R","U","S","T">>, <<"u","s">>, <<"C","l","i">>, <<"z","z","z">>, <<>>}

\* The terms and the locations add_term is called with.
Terms == {<<"r","u","s","t">>, <<"R","u","s","t","y">>, <<"t","r","u","s","t">>, <<"c","r","u","s","t","y">>}

\* A location as add_term receives it: of entry 0 of section 0, or of section 1
\* as a whole (entry_index None).
LocationOf(section_idx, entry_idx, priority, text, github_url) ==
    [section_index |-> section_idx,
     entry_index |-> entry_idx,
     line_content |-> text,
     start_pos |-> 0,
     end_pos |-> Len(text),
     search_priority |-> priority,
     github_url |-> github_url]

Locations ==
    {LocationOf(0, Some(0), RepositoryName, <<"R","u","s","t">>, Some(UrlRust)),
     LocationOf(0, Some(0), Description, <<"f","a","s","t">>, Some(UrlRust)),
     LocationOf(0, Some(0), RawContent, <<"r","a","w">>, Some(UrlRust)),
     LocationOf(1, None, RepositoryName, <<"W","e","b">>, None),
     LocationOf(1, None, Description, <<"a","p","i">>, None)}

(***************************************************************************)
(* State.                                                                  *)
(***************************************************************************)
VARIABLES
    markdown_content,     \* parse: the argument
    pending,              \* the events of the block the tokenizer is in
    blocks_read,          \* blocks the tokenizer has started
    consumed,             \* the events the loop of parse has taken, in order
    pc,                   \* "start", "parsing" or "done"
    readme_content,       \* parse: locals, lines 64-76
    current_section,
    current_text,
    is_in_header,
    current_header_level,
    header_text,
    link_url,
    is_in_list_item,
    current_item_text,
    metadata,
    title_extracted,
    result,               \* what parse returned: tag, value (Option), error
    search_pc,            \* "idle", "scan" or "returned"
    query,                \* search: the argument
    query_lower,          \* search: locals
    iter,                 \* the matching terms the HashMap iterator has yet to yield
    entry_results,
    results,              \* what search returned
    cache,                \* HttpClient: the text of readme.json, None before it is written
    loaded,               \* what load_from_cache returned, None before it is called
    call,                 \* a call of one of the pure functions: fn, arg, ret
    app,                  \* the App of main.rs
    event,                \* run_app: the event the loop took last
    keys_read,            \* run_app: how many key events the loop has taken
    main_pc               \* "off", "new" (before App::new), "loop" (in run_app) or "exit"

lexVars == <<pending, blocks_read, consumed>>
headerVars == <<is_in_header, current_header_level, header_text>>
itemVars == <<link_url, is_in_list_item, current_item_text>>
sectionVars == <<readme_content, current_section, metadata, title_extracted>>
parseVars == <<headerVars, itemVars, sectionVars, current_text>>
searchVars == <<search_pc, query, query_lower, iter, entry_results, results>>
appVars == <<app, event, keys_read, main_pc>>
otherVars == <<cache, loaded, call, appVars>>
vars == <<markdown_content, lexVars, pc, parseVars, result, searchVars, otherVars>>

Pending == [tag |-> "Pending", value |-> None, error |-> ""]
Ok(value) == [tag |-> "Ok", value |-> Some(value), error |-> ""]
Err(error) == [tag |-> "Err", value |-> None, error |-> error]

\* parse, lines 64-76: the locals before the loop.
InitLocals ==
    /\ readme_content = DefaultContent
    /\ current_section = None
    /\ current_text = <<>>
    /\ is_in_header = FALSE
    /\ current_header_level = 0
    /\ header_text = <<>>
    /\ link_url = <<>>
    /\ is_in_list_item = FALSE
    /\ current_item_text = <<>>
    /\ metadata = DefaultMetadata
    /\ title_extracted = FALSE

InitSearch ==
    /\ search_pc = "idle"
    /\ query = <<>>
    /\ query_lower = <<>>
    /\ iter = {}
    /\ entry_results = EmptyMap
    /\ results = <<>>

\* No function called yet.
NoCall == [fn |-> "", arg |-> <<>>, ret |-> <<>>]

\* No event taken by the loop of run_app yet.
NoEvent == [kind |-> "None"]

\* ThemeApplicator::default
DefaultThemeApplicator ==
    [current_theme |-> None, original_theme |-> None, is_applied |-> FALSE]

\* App::new, lines 33-60: the App before load_readme is called.
NewApp ==
    [state |-> [tag |-> "Loading", message |-> ""],
     tabs |-> <<>>,
     current_tab |-> 0,
     search_query |-> <<>>,
     search_mode |-> FALSE,
     search_results |-> <<>>,
     search_selection |-> None,
     readme_content |-> None,
     quit |-> FALSE,
     focus_area |-> "Content",
     theme_browser |-> [themes |-> <<>>,
                        selected_index |-> None,
                        loading |-> FALSE,
                        error |-> None,
                        preview_theme |-> None,
                        search_mode |-> FALSE,
                        search_query |-> <<>>,
                        filtered_themes |-> <<>>,
                        filtered_selected |-> None],
     theme_browser_mode |-> FALSE,
     theme_applicator |-> DefaultThemeApplicator,
     preview_state |-> [tag |-> "None"],
     theme_entries |-> <<>>]

\* No cache file, nothing loaded, no function called.
InitCacheAndCall ==
    /\ cache = None
    /\ loaded = None
    /\ call = NoCall

\* As above, and the program not started.
InitOther ==
    /\ InitCacheAndCall
    /\ app = NewApp
    /\ event = NoEvent
    /\ keys_read = 0
    /\ main_pc = "off"

\* A call of parse on a document.  The tokenizer is a collaborator of the
\* parser: a whitespace-only document has no events, and a document with text
\* tokenizes to any sequence of at most MaxBlocks blocks.
Init ==
    /\ markdown_content \in BlankContents \cup TextContents
    /\ pending = <<>>
    /\ blocks_read = 0
    /\ consumed = <<>>
    /\ pc = "start"
    /\ InitLocals
    /\ result = Pending
    /\ InitSearch
    /\ InitOther

(***************************************************************************)
(* ReadmeParser::parse                                                     *)
(***************************************************************************)
\* The check without trim.
IsEmptyInputUntrimmed(content) == content = <<>>

\* Line 59: markdown_content.trim().is_empty()
IsEmptyInput(content) == Trim(content) = <<>>

\* Lines 58-63: the check for an empty document.
ParseBegin ==
    /\ pc = "start"
    /\ IF IsEmptyInput(markdown_content)
       THEN /\ pc' = "done"
            /\ result' = Err("Empty markdown content")
       ELSE /\ pc' = "parsing"
            /\ result' = result
    /\ UNCHANGED <<markdown_content, otherVars, lexVars, parseVars, searchVars>>

\* The blocks whose first event the iterator may yield next.
Candidates ==
    IF pending # <<>>
    THEN {pending}
    ELSE IF blocks_read < MaxBlocks /\ markdown_content \notin BlankContents
         THEN Blocks
         ELSE {}

\* "for event in parser": the iterator yields the first event of b.
Deliver(b) ==
    /\ pending' = Tail(b)
    /\ blocks_read' = IF pending = <<>> THEN blocks_read + 1 ELSE blocks_read
    /\ consumed' = Append(consumed, Head(b))

\* Event::Start(Tag::Heading { level, .. })
OnStartHeading ==
    /\ pc = "parsing"
    /\ \E b \in Candidates :
          /\ Head(b).kind = "StartHeading"
          /\ Deliver(b)
          /\ is_in_header' = TRUE
          /\ current_header_level' = Head(b).level
          /\ header_text' = <<>>
    /\ UNCHANGED <<markdown_content, otherVars, pc, itemVars, sectionVars, current_text,
                   result, searchVars>>

\* The level test off by one: a heading of level 1 opens a section too.
OpensSectionAnyLevel(level, header) == level >= 1 /\ should_parse_section(header)

\* The test of the level alone: an excluded heading opens a section too.
OpensSectionIgnoringExclusion(level, header) == level >= 2

\* Line 96: the heading opens a section.
OpensSection(level, header) == level >= 2 /\ should_parse_section(header)

\* The title taken from every heading of level 1, the first or not.
TakesTitleEveryTime == current_header_level = 1

\* Line 90: the heading is the first of level 1.
TakesTitle == ~title_extracted /\ current_header_level = 1

\* Event::End(TagEnd::Heading(_))
OnEndHeading ==
    /\ pc = "parsing"
    /\ \E b \in Candidates :
          /\ Head(b).kind = "EndHeading"
          /\ Deliver(b)
    /\ IF is_in_header
       THEN LET header == Trim(header_text)
                takes_title == TakesTitle
                opens == OpensSection(current_header_level, header)
            IN  /\ metadata' = IF takes_title
                               THEN [metadata EXCEPT !.title = header]
                               ELSE metadata
                /\ title_extracted' = (title_extracted \/ takes_title)
                /\ readme_content' =
                       IF opens /\ current_section # None
                       THEN [readme_content EXCEPT
                                !.sections = Append(@, current_section[1])]
                       ELSE readme_content
                /\ current_section' = IF opens
                                      THEN Some(NewSection(header))
                                      ELSE current_section
                /\ current_text' = IF opens THEN <<>> ELSE current_text
                /\ is_in_header' = FALSE
       ELSE UNCHANGED <<metadata, title_extracted, readme_content,
                        current_section, current_text, is_in_header>>
    /\ UNCHANGED <<markdown_content, otherVars, pc, current_header_level, header_text,
                   itemVars, result, searchVars>>

\* The slot kept when it already holds a link: the first link of an item wins.
CaptureFirstLink(dest_url) == IF link_url = <<>> THEN dest_url ELSE link_url

\* Line 111: the value stored in link_url.
CaptureLink(dest_url) == dest_url

\* Event::Start(Tag::Link { dest_url, .. })
OnStartLink ==
    /\ pc = "parsing"
    /\ \E b \in Candidates :
          /\ Head(b).kind = "StartLink"
          /\ Deliver(b)
          /\ link_url' = CaptureLink(Head(b).s)
    /\ UNCHANGED <<markdown_content, otherVars, pc, headerVars, is_in_list_item,
                   current_item_text, sectionVars, current_text, result, searchVars>>

\* Event::End(TagEnd::Link)
OnEndLink ==
    /\ pc = "parsing"
    /\ \E b \in Candidates :
          /\ Head(b).kind = "EndLink"
          /\ Deliver(b)
    /\ UNCHANGED <<markdown_content, otherVars, pc, parseVars, result, searchVars>>

\* The arms Event::Text and Event::Code push the same way.
PushText(s) ==
    IF is_in_header
    THEN /\ header_text' = header_text \o s
         /\ UNCHANGED <<current_text, current_item_text, current_section>>
    ELSE /\ current_text' = current_text \o s
         /\ current_item_text' = IF is_in_list_item
                                 THEN current_item_text \o s
                                 ELSE current_item_text
         /\ current_section' =
                IF current_section # None
                THEN Some([current_section[1] EXCEPT !.raw_content = @ \o s])
                ELSE current_section
         /\ UNCHANGED header_text

\* Event::Text(text)
OnText ==
    /\ pc = "parsing"
    /\ \E b \in Candidates :
          /\ Head(b).kind = "Text"
          /\ Deliver(b)
          /\ PushText(Head(b).s)
    /\ UNCHANGED <<markdown_content, otherVars, pc, is_in_header, current_header_level,
                   link_url, is_in_list_item, readme_content, metadata,
                   title_extracted, result, searchVars>>

\* Event::Code(code)
OnCode ==
    /\ pc = "parsing"
    /\ \E b \in Candidates :
          /\ Head(b).kind = "Code"
          /\ Deliver(b)
          /\ PushText(Head(b).s)
    /\ UNCHANGED <<markdown_content, otherVars, pc, is_in_header, current_header_level,
                   link_url, is_in_list_item, readme_content, metadata,
                   title_extracted, result, searchVars>>

\* Event::Start(Tag::List(_))
OnStartList ==
    /\ pc = "parsing"
    /\ \E b \in Candidates :
          /\ Head(b).kind = "StartList"
          /\ Deliver(b)
    /\ current_text' = IF ~is_in_header /\ Trim(current_text) # <<>>
                       THEN Append(current_text, "\n")
                       ELSE current_text
    /\ UNCHANGED <<markdown_content, otherVars, pc, headerVars, itemVars, sectionVars,
                   result, searchVars>>

\* The bullet the code pushes: the four characters of the literal at line 149.
Bullet == <<"a-circumflex", "euro", "cent", " ">>

\* Event::Start(Tag::Item)
OnStartItem ==
    /\ pc = "parsing"
    /\ \E b \in Candidates :
          /\ Head(b).kind = "StartItem"
          /\ Deliver(b)
    /\ IF ~is_in_header
       THEN /\ current_text' = current_text \o Bullet
            /\ is_in_list_item' = TRUE
            /\ current_item_text' = <<>>
       ELSE UNCHANGED <<current_text, is_in_list_item, current_item_text>>
    /\ UNCHANGED <<markdown_content, otherVars, pc, headerVars, link_url, sectionVars,
                   result, searchVars>>

\* The condition without the filter on the link.
ItemIsEntryAnyLink ==
    /\ is_in_list_item
    /\ link_url # <<>>
    /\ Trim(current_item_text) # <<>>
    /\ current_section # None

\* Event::End(TagEnd::Item), lines 162-167: the condition under which the item
\* becomes an entry.
ItemIsEntry ==
    /\ is_in_list_item
    /\ link_url # <<>>
    /\ Trim(current_item_text) # <<>>
    /\ current_section # None
    /\ is_github_link(link_url)

\* The push without the increment of entry_count.
PushEntryUncounted(section) ==
    [section EXCEPT
        !.entries = Append(@, extract_repository_entry(current_item_text, link_url))]

\* Lines 168-171: the section with the entry of the item pushed.
PushEntry(section) ==
    [section EXCEPT
        !.entries = Append(@, extract_repository_entry(current_item_text, link_url)),
        !.entry_count = @ + 1]

\* The resets made only when the item gave an entry.
ResetItemOnEntry ==
    IF ItemIsEntry
    THEN /\ is_in_list_item' = FALSE
         /\ current_item_text' = <<>>
         /\ link_url' = <<>>
    ELSE UNCHANGED itemVars

\* Lines 174-176: the resets at the end of an item.
ResetItem ==
    /\ is_in_list_item' = FALSE
    /\ current_item_text' = <<>>
    /\ link_url' = <<>>

\* Event::End(TagEnd::Item)
OnEndItem ==
    /\ pc = "parsing"
    /\ \E b \in Candidates :
          /\ Head(b).kind = "EndItem"
          /\ Deliver(b)
    /\ IF ~is_in_header
       THEN /\ current_text' = Append(current_text, "\n")
            /\ current_section' =
                   IF current_section = None
                   THEN None
                   ELSE LET section == [current_section[1] EXCEPT
                                           !.raw_content = Append(@, "\n")]
                        IN  IF ItemIsEntry
                            THEN Some(PushEntry(section))
                            ELSE Some(section)
            /\ ResetItem
       ELSE UNCHANGED <<current_text, current_section, itemVars>>
    /\ UNCHANGED <<markdown_content, otherVars, pc, headerVars, readme_content, metadata,
                   title_extracted, result, searchVars>>

\* Event::SoftBreak | Event::HardBreak
OnBreak ==
    /\ pc = "parsing"
    /\ \E b \in Candidates :
          /\ Head(b).kind \in {"SoftBreak", "HardBreak"}
          /\ Deliver(b)
    /\ IF ~is_in_header
       THEN /\ current_text' = Append(current_text, "\n")
            /\ current_item_text' = IF is_in_list_item
                                    THEN Append(current_item_text, "\n")
                                    ELSE current_item_text
            /\ current_section' =
                   IF current_section # None
                   THEN Some([current_section[1] EXCEPT
                                 !.raw_content = Append(@, "\n")])
                   ELSE current_section
       ELSE UNCHANGED <<current_text, current_item_text, current_section>>
    /\ UNCHANGED <<markdown_content, otherVars, pc, headerVars, link_url, is_in_list_item,
                   readme_content, metadata, title_extracted, result, searchVars>>

\* The arm "_ => {}".
OnOther ==
    /\ pc = "parsing"
    /\ \E b \in Candidates :
          /\ Head(b).kind = "Other"
          /\ Deliver(b)
    /\ UNCHANGED <<markdown_content, otherVars, pc, parseVars, result, searchVars>>

RECURSIVE SumEntryCount(_)
\* sections.iter().map(|s| s.entry_count).sum()
SumEntryCount(sections) ==
    IF sections = <<>>
    THEN 0
    ELSE Head(sections).entry_count + SumEntryCount(Tail(sections))

\* Lines 194-204: the catalog as it stands after the loop.
Finished ==
    LET sections == IF current_section # None
                    THEN Append(readme_content.sections, current_section[1])
                    ELSE readme_content.sections
    IN  [sections |-> sections,
         search_index |-> build_search_index(sections),
         metadata |-> [metadata EXCEPT !.total_entries = SumEntryCount(sections)]]

\* The return without the validation.
ValidatedAlways(content) == Ok(content)

\* Lines 206-211: the validation and the value returned.
Validated(content) ==
    IF content.sections = <<>>
    THEN Err("No valid sections found in markdown content")
    ELSE Ok(content)

\* The end of the stream: lines 194-211.
ParseEnd ==
    /\ pc = "parsing"
    /\ pending = <<>>
    /\ readme_content' = Finished
    /\ metadata' = Finished.metadata
    /\ current_section' = None
    /\ result' = Validated(Finished)
    /\ pc' = "done"
    /\ UNCHANGED <<markdown_content, otherVars, lexVars, headerVars, itemVars, current_text,
                   title_extracted, searchVars>>

(***************************************************************************)
(* SearchIndex::search, on the index of the catalog parse returned.        *)
(***************************************************************************)
\* The SearchIndex search is called on.
Self == result.value[1].search_index

\* Lines 100-107: the arguments, and the filter on the terms.
SearchBegin ==
    /\ pc = "done"
    /\ result.tag = "Ok"
    /\ search_pc = "idle"
    /\ \E q \in Queries :
          /\ query' = q
          /\ query_lower' = ToLower(q)
          /\ iter' = {term \in DOMAIN Self.terms : Contains(term, ToLower(q))}
    /\ entry_results' = EmptyMap
    /\ search_pc' = "scan"
    /\ UNCHANGED <<markdown_content, otherVars, lexVars, pc, parseVars, result, results>>

\* Lines 108-146: the iterator yields one more matching term, in any order.
SearchVisit ==
    /\ search_pc = "scan"
    /\ \E term \in iter :
          /\ iter' = iter \ {term}
          /\ entry_results' =
                 VisitLocations(term, query_lower, Self.terms[term], entry_results)
    /\ UNCHANGED <<markdown_content, otherVars, lexVars, pc, parseVars, result, search_pc,
                   query, query_lower, results>>

\* Lines 148-157: into_values, in any order, and the sort.
SearchReturn ==
    /\ search_pc = "scan"
    /\ iter = {}
    /\ \E order \in IterationOrders(DOMAIN entry_results) :
          results' = SortBy([i \in 1..Len(order) |-> entry_results[order[i]].result])
    /\ search_pc' = "returned"
    /\ UNCHANGED <<markdown_content, otherVars, lexVars, pc, parseVars, result, query,
                   query_lower, iter, entry_results>>

Next ==
    \/ ParseBegin
    \/ OnStartHeading
    \/ OnEndHeading
    \/ OnStartLink
    \/ OnEndLink
    \/ OnText
    \/ OnCode
    \/ OnStartList
    \/ OnStartItem
    \/ OnEndItem
    \/ OnBreak
    \/ OnOther
    \/ ParseEnd
    \/ SearchBegin
    \/ SearchVisit
    \/ SearchReturn

Spec == Init /\ [][Next]_vars

(***************************************************************************)
(* SearchIndex::add_term and search, on an index built by add_term.        *)
(***************************************************************************)
\* A catalog with an empty index, held by the caller of add_term.
InitIndex ==
    /\ markdown_content = <<>>
    /\ pending = <<>>
    /\ blocks_read = 0
    /\ consumed = <<>>
    /\ pc = "done"
    /\ InitLocals
    /\ result = Ok(DefaultContent)
    /\ InitSearch
    /\ InitOther

\* A call of add_term.
AddTerm ==
    /\ search_pc = "idle"
    /\ Self.total_terms < MaxTerms
    /\ \E term \in Terms, location \in Locations :
          result' = [result EXCEPT
                        !.value[1].search_index = add_term(@, term, location)]
    /\ UNCHANGED <<markdown_content, otherVars, lexVars, pc, parseVars, searchVars>>

NextIndex ==
    \/ AddTerm
    \/ SearchBegin
    \/ SearchVisit
    \/ SearchReturn

SpecIndex == InitIndex /\ [][NextIndex]_vars

(***************************************************************************)
(* HttpClient::save_to_cache and load_from_cache: the catalog as the JSON  *)
(* document serde_json writes for the derived Serialize of models.rs, and  *)
(* the catalog serde_json reads back from it.  The document is kept as a   *)
(* tree of JSON values; objects are maps from member name to value, as     *)
(* from_str reads them; a string holds its text as written, escaped.       *)
(***************************************************************************)
JNull == [json |-> "null"]
JNumber(n) == [json |-> "number", n |-> n]
JArray(items) == [json |-> "array", items |-> items]
JObject(members) == [json |-> "object", members |-> members]

\* serde_json: the characters written for one character of a string.
EscapeChar(c) ==
    CASE c = "\"" -> <<"\\", "\"">>
      [] c = "\\" -> <<"\\", "\\">>
      [] c = "\n" -> <<"\\", "n">>
      [] c = "\t" -> <<"\\", "t">>
      [] OTHER -> <<c>>

RECURSIVE Escape(_)
\* serde_json: a string as written between its quotes.
Escape(s) == IF s = <<>> THEN <<>> ELSE EscapeChar(Head(s)) \o Escape(Tail(s))

\* The escape sequence read as the character that follows the backslash.
UnescapeCharLiteral(c) == c

\* serde_json: the character an escape sequence "\c" stands for.
UnescapeChar(c) ==
    CASE c = "n" -> "\n"
      [] c = "t" -> "\t"
      [] OTHER -> c

RECURSIVE Unescape(_)
\* serde_json: the string read from the text between two quotes.
Unescape(s) ==
    IF s = <<>> THEN <<>>
    ELSE IF Head(s) = "\\" /\ Len(s) >= 2
         THEN <<UnescapeChar(s[2])>> \o Unescape(SubSeq(s, 3, Len(s)))
         ELSE <<Head(s)>> \o Unescape(Tail(s))

JString(s) == [json |-> "string", text |-> Escape(s)]

\* Option<usize>, Option<String>: null for None, the value for Some.
SerOptionNumber(opt) == IF opt = None THEN JNull ELSE JNumber(opt[1])
SerOptionString(opt) == IF opt = None THEN JNull ELSE JString(opt[1])

\* Vec<String>: an array.
SerStrings(v) == JArray([i \in 1..Len(v) |-> JString(v[i])])

\* SearchPriority: a unit variant is written as its name.
VariantName(priority) ==
    CASE priority = RepositoryName -> <<"R","e","p","o","s","i","t","o","r","y","N","a","m","e">>
      [] priority = Description -> <<"D","e","s","c","r","i","p","t","i","o","n">>
      [] priority = RawContent -> <<"R","a","w","C","o","n","t","e","n","t">>

\* #[derive(Serialize)] of RepositoryEntry
SerEntry(entry) ==
    JObject([title |-> JString(entry.title),
             url |-> JString(entry.url),
             description |-> JString(entry.description),
             tags |-> SerStrings(entry.tags)])

\* #[derive(Serialize)] of Section
SerSection(section) ==
    JObject([title |-> JString(section.title),
             entries |-> JArray([i \in 1..Len(section.entries) |-> SerEntry(section.entries[i])]),
             raw_content |-> JString(section.raw_content),
             entry_count |-> JNumber(section.entry_count)])

\* #[derive(Serialize)] of SearchLocation
SerLocation(location) ==
    JObject([section_index |-> JNumber(location.section_index),
             entry_index |-> SerOptionNumber(location.entry_index),
             line_content |-> JString(location.line_content),
             start_pos |-> JNumber(location.start_pos),
             end_pos |-> JNumber(location.end_pos),
             search_priority |-> JString(VariantName(location.search_priority)),
             github_url |-> SerOptionString(location.github_url)])

\* Vec<SearchLocation>: an array.
SerLocations(locations) ==
    JArray([i \in 1..Len(locations) |-> SerLocation(locations[i])])

\* HashMap<String, Vec<SearchLocation>>: an object with a member for each key.
SerTerms(terms) ==
    JObject([key \in {Escape(term) : term \in DOMAIN terms} |->
                SerLocations(terms[CHOOSE term \in DOMAIN terms : Escape(term) = key])])

\* #[derive(Serialize)] of SearchIndex
SerIndex(index) ==
    JObject([terms |-> SerTerms(index.terms),
             total_terms |-> JNumber(index.total_terms)])

\* #[derive(Serialize)] of ReadmeMetadata
SerMetadata(m) ==
    JObject([title |-> JString(m.title),
             description |-> JString(m.description),
             last_updated |-> SerOptionString(m.last_updated),
             total_entries |-> JNumber(m.total_entries)])

\* #[derive(Serialize)] of ReadmeContent
Serialize(content) ==
    JObject([sections |-> JArray([i \in 1..Len(content.sections) |->
                                      SerSection(content.sections[i])]),
             search_index |-> SerIndex(content.search_index),
             metadata |-> SerMetadata(content.metadata)])

\* String
DeString(v) == Unescape(v.text)

\* usize
DeNumber(v) == v.n

\* Option<usize>, Option<String>: None for null, Some of the value otherwise.
DeOptionNumber(v) == IF v = JNull THEN None ELSE Some(DeNumber(v))
DeOptionString(v) == IF v = JNull THEN None ELSE Some(DeString(v))

\* Vec<String>
DeStrings(v) == [i \in 1..Len(v.items) |-> DeString(v.items[i])]

\* SearchPriority: the variant of the name read.
DePriority(v) ==
    CHOOSE priority \in {RepositoryName, Description, RawContent} :
        VariantName(priority) = DeString(v)

\* #[derive(Deserialize)] of RepositoryEntry
DeEntry(v) ==
    [title |-> DeString(v.members.title),
     url |-> DeString(v.members.url),
     description |-> DeString(v.members.description),
     tags |-> DeStrings(v.members.tags)]

\* #[derive(Deserialize)] of Section
DeSection(v) ==
    [title |-> DeString(v.members.title),
     entries |-> [i \in 1..Len(v.members.entries.items) |->
                    DeEntry(v.members.entries.items[i])],
     raw_content |-> DeString(v.members.raw_content),
     entry_count |-> DeNumber(v.members.entry_count)]

\* #[derive(Deserialize)] of SearchLocation
DeLocation(v) ==
    [section_index |-> DeNumber(v.members.section_index),
     entry_index |-> DeOptionNumber(v.members.entry_index),
     line_content |-> DeString(v.members.line_content),
     start_pos |-> DeNumber(v.members.start_pos),
     end_pos |-> DeNumber(v.members.end_pos),
     search_priority |-> DePriority(v.members.search_priority),
     github_url |-> DeOptionString(v.members.github_url)]

\* Vec<SearchLocation>
DeLocations(v) == [i \in 1..Len(v.items) |-> DeLocation(v.items[i])]

\* HashMap<String, Vec<SearchLocation>>: an entry for each member read.
DeTerms(v) ==
    [term \in {Unescape(key) : key \in DOMAIN v.members} |->
        DeLocations(v.members[CHOOSE key \in DOMAIN v.members : Unescape(key) = term])]

\* #[derive(Deserialize)] of SearchIndex
DeIndex(v) ==
    [terms |-> DeTerms(v.members.terms),
     total_terms |-> DeNumber(v.members.total_terms)]

\* #[derive(Deserialize)] of ReadmeMetadata
DeMetadata(v) ==
    [title |-> DeString(v.members.title),
     description |-> DeString(v.members.description),
     last_updated |-> DeOptionString(v.members.last_updated),
     total_entries |-> DeNumber(v.members.total_entries)]

\* #[derive(Deserialize)] of ReadmeContent
Deserialize(v) ==
    [sections |-> [i \in 1..Len(v.members.sections.items) |->
                     DeSection(v.members.sections.items[i])],
     search_index |-> DeIndex(v.members.search_index),
     metadata |-> DeMetadata(v.members.metadata)]

\* fetch_readme, line 49: save_to_cache(&readme_content) on what parse returned.
SaveToCache ==
    /\ pc = "done"
    /\ result.tag = "Ok"
    /\ cache' = Some(Serialize(result.value[1]))
    /\ UNCHANGED <<markdown_content, lexVars, pc, parseVars, result, searchVars,
                   loaded, call, appVars>>

\* load_from_cache: Ok of the catalog read from the file, when there is one.
LoadFromCache ==
    /\ cache # None
    /\ loaded' = Some(Deserialize(cache[1]))
    /\ UNCHANGED <<markdown_content, lexVars, pc, parseVars, result, searchVars,
                   cache, call, appVars>>

NextCache ==
    \/ ParseBegin
    \/ OnStartHeading
    \/ OnEndHeading
    \/ OnStartLink
    \/ OnEndLink
    \/ OnText
    \/ OnCode
    \/ OnStartList
    \/ OnStartItem
    \/ OnEndItem
    \/ OnBreak
    \/ OnOther
    \/ ParseEnd
    \/ SaveToCache
    \/ LoadFromCache

\* parse, then the cache written and read.
SpecCache == Init /\ [][NextCache]_vars

(***************************************************************************)
(* The pure functions of the parser, each called once on an argument.      *)
(***************************************************************************)
\* The item texts split_title_description is called with.
TextAlphabet == {"a", " ", "-", ":"}
ItemTexts == UNION {[1..n -> TextAlphabet] : n \in 0..MaxText}

\* No parse, no search, no cache: only a call.
InitCalls ==
    /\ markdown_content = <<>>
    /\ pending = <<>>
    /\ blocks_read = 0
    /\ consumed = <<>>
    /\ pc = "start"
    /\ InitLocals
    /\ result = Pending
    /\ InitSearch
    /\ InitOther

\* The variables a pure function leaves alone: all but call.
notCallVars ==
    <<markdown_content, lexVars, pc, parseVars, result, searchVars, cache, loaded,
      appVars>>

\* split_title_description(text)
CallSplitTitleDescription ==
    /\ call = NoCall
    /\ \E text \in ItemTexts :
          call' = [fn |-> "split_title_description", arg |-> text,
                   ret |-> split_title_description(text)]
    /\ UNCHANGED notCallVars

\* The urls is_github_link is called with: a prefix, then at most MaxSegments
\* path segments separated by '/', then a '/' or nothing.
UrlPrefixes ==
    {<<"h","t","t","p","s",":","/","/","g","i","t","h","u","b",".","c","o","m","/">>, <<"h","t","t","p",":","/","/","g","i","t","h","u","b",".","c","o","m","/">>, <<"h","t","t","p","s",":","/","/","g","i","t","l","a","b",".","c","o","m","/">>,
     <<"s","e","e"," ","h","t","t","p","s",":","/","/","g","i","t","h","u","b",".","c","o","m","/">>}
UrlSegments == {<<"u">>, <<"r">>, <<"i","s","s","u","e","s">>, <<"w","i","k","i">>, <<"x","w","i","k","i">>, <<"r","e","l","e","a","s","e","s">>}

RECURSIVE JoinPath(_)
\* The segments with a '/' between them.
JoinPath(segments) ==
    IF segments = <<>> THEN <<>>
    ELSE IF Len(segments) = 1 THEN segments[1]
    ELSE segments[1] \o <<"/">> \o JoinPath(Tail(segments))

UrlPaths == UNION {[1..n -> UrlSegments] : n \in 0..MaxSegments}
Urls ==
    {prefix \o JoinPath(path) \o slash :
        prefix \in UrlPrefixes, path \in UrlPaths, slash \in {<<>>, <<"/">>}}

\* is_github_link(url)
CallIsGithubLink ==
    /\ call = NoCall
    /\ \E url \in Urls :
          call' = [fn |-> "is_github_link", arg |-> url, ret |-> is_github_link(url)]
    /\ UNCHANGED notCallVars

\* The headers should_parse_section is called with: at most MaxWords words
\* with a space between them.
HeaderWords ==
    {<<"C","o","n","t","e","n","t","s">>, <<"T","O","C">>, <<"S","t","o","c","k">>, <<"L","i","c","e","n","s","e">>, <<"a","w","e","s","o","m","e">>, <<"B","a","d","g","e","s">>,
     <<"C","O","N","T","R","I","B","U","T","I","N","G">>, <<"T","o","o","l","s">>, <<"T","h","e","m","e","s">>, <<"M","i","s","c">>, <<"T","a","b","l","e">>, <<"o","f">>}

RECURSIVE JoinWords(_)
JoinWords(words) ==
    IF words = <<>> THEN <<>>
    ELSE IF Len(words) = 1 THEN words[1]
    ELSE words[1] \o <<" ">> \o JoinWords(Tail(words))

Headers == {JoinWords(words) : words \in UNION {[1..n -> HeaderWords] : n \in 0..MaxWords}}

\* should_parse_section(header)
CallShouldParseSection ==
    /\ call = NoCall
    /\ \E header \in Headers :
          call' = [fn |-> "should_parse_section", arg |-> header,
                   ret |-> should_parse_section(header)]
    /\ UNCHANGED notCallVars

NextCalls ==
    \/ CallSplitTitleDescription
    \/ CallIsGithubLink
    \/ CallShouldParseSection

SpecCalls == InitCalls /\ [][NextCalls]_vars

(***************************************************************************)
(* What the claims speak of: the headings and the list items of the        *)
(* stream parse has consumed, read off the events themselves.              *)
(***************************************************************************)
RECURSIVE HeadingsOf(_, _, _, _)
\* The headings of a stream, in order: the level and the trimmed text of each.
HeadingsOf(events, open, level, text) ==
    IF events = <<>>
    THEN <<>>
    ELSE LET e == Head(events)
         IN  CASE e.kind = "StartHeading" ->
                      HeadingsOf(Tail(events), TRUE, e.level, <<>>)
               [] e.kind = "EndHeading" /\ open ->
                      <<[level |-> level, title |-> Trim(text)]>>
                          \o HeadingsOf(Tail(events), FALSE, level, text)
               [] e.kind \in {"Text", "Code"} /\ open ->
                      HeadingsOf(Tail(events), open, level, text \o e.s)
               [] OTHER -> HeadingsOf(Tail(events), open, level, text)

Headings == HeadingsOf(consumed, FALSE, 0, <<>>)

\* A heading that the policy of the extractor includes.
Included(h) == h.level >= 2 /\ should_parse_section(h.title)

\* The titles of the included headings, in document order.
IncludedTitles ==
    LET hs == SelectSeq(Headings, Included)
    IN  [i \in 1..Len(hs) |-> hs[i].title]

TitlesOf(sections) == [i \in 1..Len(sections) |-> sections[i].title]

\* The pushed sections, then the open one.
SectionsSoFar ==
    readme_content.sections
        \o (IF current_section # None THEN <<current_section[1]>> ELSE <<>>)

Returned == pc = "done" /\ result.tag = "Ok"

Catalog == result.value[1]

\* The last event consumed ended an included heading.
JustOpened ==
    /\ consumed # <<>>
    /\ consumed[Len(consumed)].kind = "EndHeading"
    /\ Headings # <<>>
    /\ Included(Headings[Len(Headings)])

\* C1: on every stream the sections, in order, are the included headings of
\* level >= 2, titled by the trimmed heading text: while the stream is read
\* (pushed sections then the open one), right after such a heading (the open
\* section is new and empty), and in the catalog returned.
C1_SectionsAreIncludedHeadings ==
    /\ pc = "parsing" => TitlesOf(SectionsSoFar) = IncludedTitles
    /\ (pc = "parsing" /\ JustOpened) =>
           /\ current_section # None
           /\ current_section[1].entries = <<>>
           /\ current_section[1].raw_content = <<>>
           /\ current_section[1].entry_count = 0
    /\ Returned => TitlesOf(Catalog.sections) = IncludedTitles

\* C1 witness: a catalog of two sections returned for a stream of three
\* headings, one of them of level 1 or excluded.
C1_Witness ==
    /\ Returned
    /\ Len(Catalog.sections) = 2
    /\ Len(Headings) = 3

RECURSIVE ItemsOf(_, _, _, _, _, _, _)
\* The list items of a stream, each from its item start to its matching item
\* end: where it starts, how many included headings precede it, and the text
\* and links met while it is the innermost open item.
ItemsOf(events, pos, stack, open, level, text, nsec) ==
    IF pos > Len(events)
    THEN {}
    ELSE LET e == events[pos]
             top == Len(stack)
             Go(stack2, open2, level2, text2, nsec2) ==
                 ItemsOf(events, pos + 1, stack2, open2, level2, text2, nsec2)
             Say(s) == IF open
                       THEN Go(stack, open, level, text \o s, nsec)
                       ELSE IF top > 0
                            THEN Go([stack EXCEPT ![top].text = @ \o s],
                                    open, level, text, nsec)
                            ELSE Go(stack, open, level, text, nsec)
         IN  CASE e.kind = "StartHeading" -> Go(stack, TRUE, e.level, <<>>, nsec)
               [] e.kind = "EndHeading" ->
                      Go(stack, FALSE, level, text,
                         IF open /\ Included([level |-> level, title |-> Trim(text)])
                         THEN nsec + 1
                         ELSE nsec)
               [] e.kind \in {"Text", "Code"} -> Say(e.s)
               [] e.kind \in {"SoftBreak", "HardBreak"} -> Say(<<"\n">>)
               [] e.kind = "StartLink" ->
                      IF top > 0
                      THEN Go([stack EXCEPT ![top].links = Append(@, e.s)],
                              open, level, text, nsec)
                      ELSE Go(stack, open, level, text, nsec)
               [] e.kind = "StartItem" ->
                      Go(Append(stack, [start |-> pos, section |-> nsec,
                                        text |-> <<>>, links |-> <<>>]),
                         open, level, text, nsec)
               [] e.kind = "EndItem" ->
                      IF top > 0
                      THEN {stack[top]}
                               \cup Go(SubSeq(stack, 1, top - 1), open, level, text, nsec)
                      ELSE Go(stack, open, level, text, nsec)
               [] OTHER -> Go(stack, open, level, text, nsec)

Items == ItemsOf(consumed, 1, <<>>, FALSE, 0, <<>>, 0)

\* The link of an item: the last one in it.
LinkOf(item) == item.links[Len(item.links)]

\* An item under an included heading, with text, whose link is a repository link.
IsGitHubItem(item) ==
    /\ item.section > 0
    /\ Trim(item.text) # <<>>
    /\ item.links # <<>>
    /\ is_github_link(LinkOf(item))

\* C2 (as claimed): in a returned catalog the entries of each section are, in
\* document order, the list items under its heading that have text and a
\* repository link of their own: one entry for each, and no other entry.
C2_EveryGitHubItemIsOneEntry ==
    Returned =>
        \A i \in 1..Len(Catalog.sections) :
            LET mine == {it \in Items : IsGitHubItem(it) /\ it.section = i}
                entries == Catalog.sections[i].entries
            IN  /\ Len(entries) = Cardinality(mine)
                /\ \A j \in 1..Len(entries) :
                       \E it \in mine :
                           /\ Cardinality({o \in mine : o.start < it.start}) = j - 1
                           /\ entries[j].url = LinkOf(it)

RECURSIVE TotalCount(_, _)
\* The sum of entry_count over the first n sections.
TotalCount(sections, n) ==
    IF n = 0 THEN 0 ELSE sections[n].entry_count + TotalCount(sections, n - 1)

\* C3: entry_count is the length of entries, for the open section and every
\* pushed one in every state of the extractor and for every section of a
\* returned catalog, whose total_entries is the sum of the entry_count.
C3_EntryCountIsLength ==
    /\ \A i \in 1..Len(SectionsSoFar) :
           SectionsSoFar[i].entry_count = Len(SectionsSoFar[i].entries)
    /\ Returned =>
           /\ \A i \in 1..Len(Catalog.sections) :
                  Catalog.sections[i].entry_count = Len(Catalog.sections[i].entries)
           /\ Catalog.metadata.total_entries =
                  TotalCount(Catalog.sections, Len(Catalog.sections))

\* C3 witness: a returned catalog with a section of two entries.
C3_Witness ==
    /\ Returned
    /\ \E i \in 1..Len(Catalog.sections) : Catalog.sections[i].entry_count = 2
    /\ Catalog.metadata.total_entries = 2

\* A document that is empty or all whitespace.
IsBlank(content) == \A i \in 1..Len(content) : content[i] \in Whitespace

\* C4: on an empty or whitespace-only document parse enters no loop and
\* returns the failure "Empty markdown content", with no catalog.
C4_BlankInputIsEmptyInput ==
    (pc # "start" /\ IsBlank(markdown_content)) =>
        /\ pc = "done"
        /\ result.tag = "Err"
        /\ result.error = "Empty markdown content"
        /\ result.value = None

\* C4 witness: parse has returned on a document of spaces and line ends.
C4_Witness ==
    /\ pc = "done"
    /\ Len(markdown_content) >= 2
    /\ IsBlank(markdown_content)
    /\ "\n" \in Range(markdown_content)

\* C5: when a document with text yields no section, parse returns the failure
\* "No valid sections found in markdown content" and no catalog; a returned
\* catalog has at least one section.
C5_NoSectionsIsFailure ==
    /\ (pc = "done" /\ ~IsBlank(markdown_content) /\ readme_content.sections = <<>>) =>
           /\ result.tag = "Err"
           /\ result.error = "No valid sections found in markdown content"
           /\ result.value = None
    /\ Returned => Len(Catalog.sections) >= 1

\* C5 witness: a stream with a heading and a list item but no included
\* heading of level >= 2 has been read to its end.
C5_Witness ==
    /\ pc = "done"
    /\ ~IsBlank(markdown_content)
    /\ Headings # <<>>
    /\ Items # {}
    /\ readme_content.sections = <<>>

(***************************************************************************)
(* What the claims on search speak of.                                     *)
(***************************************************************************)
SearchReturned == search_pc = "returned"

ResultKey(r) == <<r.section_index, r.entry_index>>

LocationKey(location) == <<location.section_index, location.entry_index>>

\* The terms of the index that contain the lowercased query.
MatchingTerms == {term \in DOMAIN Self.terms : Contains(term, ToLower(query))}

\* The locations, of a priority other than RawContent, filed under a matching
\* term: each with its term.
Hits ==
    UNION {{[term |-> term, location |-> Self.terms[term][i]] :
               i \in {j \in 1..Len(Self.terms[term]) :
                         Self.terms[term][j].search_priority # RawContent}} :
           term \in MatchingTerms}

HitsOf(key) == {h \in Hits : LocationKey(h.location) = key}

HitKeys == {LocationKey(h.location) : h \in Hits}

\* C6: search returns one result for each key that has a location, not of
\* priority RawContent, under a term containing the lowercased query, and no
\* other result; the score and the text of a result come from such locations
\* of its key, never from a RawContent location.
C6_OneResultPerMatchingKey ==
    SearchReturned =>
        /\ \A key \in HitKeys :
               Cardinality({i \in 1..Len(results) : ResultKey(results[i]) = key}) = 1
        /\ \A i \in 1..Len(results) :
               /\ ResultKey(results[i]) \in HitKeys
               /\ \E h \in HitsOf(ResultKey(results[i])) :
                      results[i].relevance_score =
                          LocationScore(h.term, ToLower(query), h.location)
               /\ \E h \in HitsOf(ResultKey(results[i])) :
                      results[i].line_content = h.location.line_content

\* C6 witness: search has returned two results, and a matching term holds a
\* RawContent location.
C6_Witness ==
    /\ SearchReturned
    /\ Len(results) = 2
    /\ \E term \in MatchingTerms :
           \E i \in 1..Len(Self.terms[term]) :
               Self.terms[term][i].search_priority = RawContent

\* The base of the claim, in tenths: exact, prefix, suffix, contains.
MatchBase(term, q) ==
    IF term = q THEN 10
    ELSE IF StartsWith(term, q) THEN 8
    ELSE IF EndsWith(term, q) THEN 6
    ELSE 4

\* The multiplier of the claim, in tenths.
PriorityWeight(priority) == IF priority = RepositoryName THEN 20 ELSE 15

\* The score of the claim for one hit.
HitScore(h) ==
    F64Mul(MatchBase(h.term, ToLower(query)),
           PriorityWeight(h.location.search_priority))

\* C7: the relevance_score of a result is the maximum of base * multiplier
\* over the matching locations of its key that are not RawContent; under one
\* term a RepositoryName location scores strictly above a Description one.
C7_ScoreIsMaximum ==
    SearchReturned =>
        /\ \A i \in 1..Len(results) :
               LET scores == {HitScore(h) : h \in HitsOf(ResultKey(results[i]))}
               IN  /\ results[i].relevance_score \in scores
                   /\ \A s \in scores : s <= results[i].relevance_score
        /\ \A term \in MatchingTerms :
               LocationScore(term, ToLower(query), [search_priority |-> RepositoryName])
                   > LocationScore(term, ToLower(query), [search_priority |-> Description])

\* C7 witness: a result whose key has matching locations of three different scores.
C7_Witness ==
    /\ SearchReturned
    /\ \E i \in 1..Len(results) :
           Cardinality({HitScore(h) : h \in HitsOf(ResultKey(results[i]))}) = 3

\* C8: the list search returns is in non-increasing order of relevance_score.
C8_ResultsSortedDescending ==
    SearchReturned =>
        \A i, j \in 1..Len(results) :
            i < j => results[i].relevance_score >= results[j].relevance_score

\* C8 witness: two results of different scores returned.
C8_Witness ==
    /\ SearchReturned
    /\ Len(results) = 2
    /\ results[1].relevance_score # results[2].relevance_score

\* C9 (as claimed): search called with the empty query returns the empty list.
C9_EmptyQueryReturnsNothing ==
    (SearchReturned /\ query = <<>>) => results = <<>>

\* The words of a text, split at whitespace.
WordsOf(text) == {SplitWhitespace(text)[i] : i \in 1..Len(SplitWhitespace(text))}

\* char::is_alphanumeric, as a test.
IsAlphanumeric(c) == c \in Alphanumeric

\* A word with its non-alphanumeric characters stripped.
Stripped(word) == SelectSeq(word, IsAlphanumeric)

\* The words of an entry that the claim speaks of: of its title, and of its
\* description when it has one, more than 2 characters long once stripped.
LongWordsOf(entry) ==
    {Stripped(w) : w \in {x \in WordsOf(entry.title) \cup WordsOf(entry.description) :
                             Len(Stripped(x)) > 2}}

\* C10: in the index of a returned catalog, a query equal, whatever the case
\* of its letters, to a stripped word of more than 2 characters of an entry's
\* title or description has a result for that entry, of positive score and
\* with the entry's url; a query contained in no term has no result.
C10_IndexedWordsAreFound ==
    (Returned /\ SearchReturned) =>
        /\ \A s \in 1..Len(Catalog.sections) :
               \A e \in 1..Len(Catalog.sections[s].entries) :
                   LET entry == Catalog.sections[s].entries[e]
                   IN  (\E w \in LongWordsOf(entry) : ToLower(w) = ToLower(query)) =>
                           \E i \in 1..Len(results) :
                               /\ results[i].section_index = s - 1
                               /\ results[i].entry_index = Some(e - 1)
                               /\ results[i].relevance_score > 0
                               /\ results[i].github_url = Some(entry.url)
        /\ (\A term \in DOMAIN Self.terms : ~Contains(term, ToLower(query))) =>
               results = <<>>

\* C10 witness: the query RUST, in capitals, on a catalog that has the word
\* in a title ("Rust") and a longer word in a description ("rusty"): two results.
C10_Witness ==
    /\ Returned
    /\ SearchReturned
    /\ query = <<"R","U","S","T">>
    /\ Len(results) = 2
    /\ \E s \in 1..Len(Catalog.sections) :
           \E e \in 1..Len(Catalog.sections[s].entries) :
               <<"R","u","s","t">> \in LongWordsOf(Catalog.sections[s].entries[e])

(***************************************************************************)
(* What the claims on the pure functions speak of.                         *)
(***************************************************************************)
Called(fn) == call.fn = fn

\* The text has sep at the 0-based offset i, and nowhere before.
FirstAt(text, sep, i) ==
    /\ i + Len(sep) <= Len(text)
    /\ SubSeq(text, i + 1, i + Len(sep)) = sep
    /\ \A j \in 0..(i - 1) : SubSeq(text, j + 1, j + Len(sep)) # sep

HasSeparator(text, sep) == \E i \in 0..Len(text) : FirstAt(text, sep, i)

\* The parts of a text before offset i, and after the separator at offset i.
PartBefore(text, i) == SubSeq(text, 1, i)
PartAfter(text, sep, i) == SubSeq(text, i + Len(sep) + 1, Len(text))

\* The split of the claim, with the title trimmed or as it stands.
SplitIs(text, ret, trim_title) ==
    LET t == Trim(text)
        At(sep) ==
            \E i \in 0..Len(t) :
                /\ FirstAt(t, sep, i)
                /\ ret[1] = IF trim_title
                            THEN Trim(PartBefore(t, i))
                            ELSE PartBefore(t, i)
                /\ ret[2] = Trim(PartAfter(t, sep, i))
    IN  IF HasSeparator(t, <<" ","-"," ">>) THEN At(<<" ","-"," ">>)
        ELSE IF HasSeparator(t, <<":"," ">>) THEN At(<<":"," ">>)
        ELSE ret[1] = t /\ ret[2] = <<>>

\* C11 (amended): split_title_description returns, for every text, a title and
\* a description: on the trimmed text, split at the first " - " if there is
\* one, even after an earlier ": ", else at the first ": ", the title being
\* the trimmed part before and the description the trimmed part after; with
\* neither separator the title is the trimmed text and the description empty.
C11_SplitTrimsBothParts ==
    Called("split_title_description") =>
        /\ Len(call.ret) = 2
        /\ SplitIs(call.arg, call.ret, TRUE)

\* C11 witness: a text with ": " before " - ", split at the " - ".
C11_Witness ==
    /\ Called("split_title_description")
    /\ call.arg = <<"a",":"," ","-"," ","a">>
    /\ call.ret = << <<"a",":">>, <<"a">> >>

\* C11 (as claimed): the same, the title being the part before the separator
\* as it stands.
C11_TitleIsPartBefore ==
    Called("split_title_description") => SplitIs(call.arg, call.ret, FALSE)

RECURSIVE CountOf(_, _)
\* How many times the character c is in s.
CountOf(s, c) ==
    IF s = <<>> THEN 0
    ELSE (IF Head(s) = c THEN 1 ELSE 0) + CountOf(Tail(s), c)

\* s has p somewhere in it.
HasSubstring(s, p) == Occurrences(s, p) # {}

\* The filter of the claim.
IsRepoLink(url) ==
    /\ Len(url) >= Len(GitHubPrefix)
    /\ \A i \in 1..Len(GitHubPrefix) : url[i] = GitHubPrefix[i]
    /\ CountOf(url, "/") >= 4
    /\ ~HasSubstring(url, <<"/","i","s","s","u","e","s">>)
    /\ ~HasSubstring(url, <<"/","w","i","k","i">>)
    /\ ~HasSubstring(url, <<"/","r","e","l","e","a","s","e","s">>)

\* C12: is_github_link(url) is true exactly when url starts with
\* "https://github.com/", has at least 4 '/' and has none of "/issues", "/wiki",
\* "/releases" in it.
C12_GithubLinkFilter ==
    Called("is_github_link") => (call.ret <=> IsRepoLink(call.arg))

\* C12 witness: the filter called on a repository whose name has "wiki" in it
\* but not "/wiki": accepted.
C12_Witness ==
    /\ Called("is_github_link")
    /\ call.arg = <<"h","t","t","p","s",":","/","/","g","i","t","h","u","b",".","c","o","m","/","u","/","x","w","i","k","i">>
    /\ call.ret = TRUE

\* The headings of level 1 ended so far, in order.
IsLevelOne(h) == h.level = 1
LevelOnes == SelectSeq(Headings, IsLevelOne)

\* C13: at every point of parse, and in the catalog it returns, metadata.title
\* is the trimmed text of the first heading of level 1 that has ended, and the
\* default title while there is none: no later heading changes it, and no
\* heading of level 2 or more sets it.
C13_TitleIsFirstLevelOneHeading ==
    LET expected == IF LevelOnes = <<>>
                    THEN DefaultMetadata.title
                    ELSE LevelOnes[1].title
    IN  /\ pc \in {"parsing", "done"} => metadata.title = expected
        /\ Returned => Catalog.metadata.title = expected

\* C13 witness: a catalog returned for a stream with two headings of level 1
\* of different texts, and the title of the first.
C13_Witness ==
    /\ Returned
    /\ Len(LevelOnes) = 2
    /\ LevelOnes[1].title # LevelOnes[2].title
    /\ Catalog.metadata.title = LevelOnes[1].title

\* C14: the catalog load_from_cache reads from the file save_to_cache wrote
\* for a catalog is that catalog, in every field: the sections with their
\* entries, the terms of the index with their lists of locations in order and
\* total_terms, and the metadata.
C14_CacheRoundTrip ==
    (loaded # None) => loaded[1] = Catalog

\* C14 witness: a catalog read back that has line ends in a raw_content, an
\* entry, and a term with two locations.
C14_Witness ==
    /\ loaded # None
    /\ \E i \in 1..Len(loaded[1].sections) :
           /\ loaded[1].sections[i].entries # <<>>
           /\ \E j \in 1..Len(loaded[1].sections[i].raw_content) :
                  loaded[1].sections[i].raw_content[j] = "\n"
    /\ \E term \in DOMAIN loaded[1].search_index.terms :
           Len(loaded[1].search_index.terms[term]) = 2

(***************************************************************************)
(* What the claims on the events of a list item speak of.                  *)
(***************************************************************************)
\* The step takes an event of this kind from the tokenizer.
Consumes(kind) ==
    /\ Len(consumed') = Len(consumed) + 1
    /\ consumed'[Len(consumed')].kind = kind

\* The last event taken is of this kind.
LastConsumed(kind) == consumed # <<>> /\ consumed[Len(consumed)].kind = kind

\* The sections of the extractor: the pushed ones, then the open one.
OpenAndPushed ==
    readme_content.sections
        \o (IF current_section = None THEN <<>> ELSE <<current_section[1]>>)

\* The conditions of the claim for an item end to give an entry.
ItemEndGivesEntry ==
    /\ is_in_list_item
    /\ link_url # <<>>
    /\ \E i \in 1..Len(current_item_text) : current_item_text[i] \notin Whitespace
    /\ current_section # None
    /\ IsRepoLink(link_url)

\* The step appends one entry, of the captured link, to the open section and
\* changes the entries of no other section.
AppendsOneEntry ==
    /\ current_section # None
    /\ current_section' # None
    /\ Len(current_section'[1].entries) = Len(current_section[1].entries) + 1
    /\ SubSeq(current_section'[1].entries, 1, Len(current_section[1].entries))
           = current_section[1].entries
    /\ current_section'[1].entries[Len(current_section'[1].entries)].url = link_url
    /\ current_section'[1].entry_count = current_section[1].entry_count + 1
    /\ readme_content'.sections = readme_content.sections

\* The step changes the entries and the entry_count of no section.
AppendsNoEntry ==
    /\ readme_content'.sections = readme_content.sections
    /\ (current_section = None) = (current_section' = None)
    /\ current_section # None =>
           /\ current_section'[1].entries = current_section[1].entries
           /\ current_section'[1].entry_count = current_section[1].entry_count

\* C15: a step that takes an item end appends one entry to the open section
\* when an item is open, a link is captured, the text of the item is not
\* blank, a section is open and the link passes the filter, and otherwise
\* changes the entries and entry_count of no section; and the url of every
\* entry of every section passes the filter.
C15_ItemEndAppendsIffConditions ==
    /\ [][Consumes("EndItem") =>
             IF ItemEndGivesEntry THEN AppendsOneEntry ELSE AppendsNoEntry]_vars
    /\ [](\A i \in 1..Len(OpenAndPushed) :
             \A j \in 1..Len(OpenAndPushed[i].entries) :
                 IsRepoLink(OpenAndPushed[i].entries[j].url))

\* C15 witness: an item end has just been taken, the open section has one
\* entry, and the stream had a link that the filter refuses.
C15_Witness ==
    /\ LastConsumed("EndItem")
    /\ current_section # None
    /\ Len(current_section[1].entries) = 1
    /\ \E k \in 1..Len(consumed) :
           consumed[k].kind = "StartLink" /\ ~IsRepoLink(consumed[k].s)

RECURSIVE ItemStartBefore(_, _, _)
\* The position of the item start that the item end after position k closes,
\* depth item ends being still unmatched; 0 when there is none.
ItemStartBefore(events, k, depth) ==
    IF k = 0 THEN 0
    ELSE IF events[k].kind = "EndItem"
         THEN ItemStartBefore(events, k - 1, depth + 1)
    ELSE IF events[k].kind = "StartItem"
         THEN IF depth = 0 THEN k ELSE ItemStartBefore(events, k - 1, depth - 1)
    ELSE ItemStartBefore(events, k - 1, depth)

\* The destinations of the link starts at the positions from..to of a stream.
LinksBetween(events, from, to) ==
    {events[k].s : k \in {p \in from..to : events[p].kind = "StartLink"}}

\* The step adds an entry to the open section.
AddsEntry ==
    /\ current_section # None
    /\ current_section' # None
    /\ Len(current_section'[1].entries) > Len(current_section[1].entries)

\* C16 (as claimed): the url of an entry produced at an item end is the
\* destination of a link start between the start of that item and its end;
\* a link met outside the item is never the url of an entry.
C16_UrlIsLinkOfTheItem ==
    [][(Consumes("EndItem") /\ AddsEntry) =>
          LET start == ItemStartBefore(consumed', Len(consumed') - 1, 0)
              entries == current_section'[1].entries
          IN  /\ start > 0
              /\ entries[Len(entries)].url
                     \in LinksBetween(consumed', start, Len(consumed'))]_vars

\* The position of the last item end of a stream, 0 when it has none.
LastItemEnd(events) ==
    LET ends == {k \in 1..Len(events) : events[k].kind = "EndItem"}
    IN  IF ends = {} THEN 0 ELSE CHOOSE k \in ends : \A j \in ends : j <= k

\* The positions of the link starts after the last item end.
LinkStartsSinceItemEnd(events) ==
    {k \in (LastItemEnd(events) + 1)..Len(events) : events[k].kind = "StartLink"}

\* The destination of the last of them, empty when there is none.
LastLinkSinceItemEnd(events) ==
    LET starts == LinkStartsSinceItemEnd(events)
    IN  IF starts = {} THEN <<>>
        ELSE events[CHOOSE k \in starts : \A j \in starts : j <= k].s

\* C17: the captured url is at every point the destination of the last link
\* start since the previous item end, whatever the number of link starts; an
\* entry produced at an item end carries it, and an item end whose last link
\* fails the filter produces no entry, even after a link that passes it.
C17_LastLinkWins ==
    /\ [](link_url = LastLinkSinceItemEnd(consumed))
    /\ [][Consumes("EndItem") =>
             /\ AddsEntry =>
                    current_section'[1].entries[Len(current_section'[1].entries)].url
                        = LastLinkSinceItemEnd(consumed)
             /\ ~IsRepoLink(LastLinkSinceItemEnd(consumed)) => AppendsNoEntry]_vars

\* C17 witness: an item end just taken in an open section that has no entry,
\* the item having a link that passes the filter and then one that fails it.
C17_Witness ==
    /\ LastConsumed("EndItem")
    /\ current_section # None
    /\ current_section[1].entries = <<>>
    /\ LET before == SubSeq(consumed, 1, Len(consumed) - 1)
           starts == LinkStartsSinceItemEnd(before)
       IN  /\ Cardinality(starts) = 2
           /\ \E p, q \in starts :
                  /\ p < q
                  /\ IsRepoLink(before[p].s)
                  /\ ~IsRepoLink(before[q].s)

RECURSIVE ItemTextSince(_, _)
\* The text an item gathers from the events after position k of a stream: of
\* the Text and Code events, and a line end for a break.
ItemTextSince(events, k) ==
    IF k >= Len(events) THEN <<>>
    ELSE LET e == events[k + 1]
         IN  (CASE e.kind \in {"Text", "Code"} -> e.s
                [] e.kind \in {"SoftBreak", "HardBreak"} -> <<"\n">>
                [] OTHER -> <<>>) \o ItemTextSince(events, k + 1)

\* C18: once an item end is taken, an entry produced or not, no item is open
\* and the text and the link kept for the item are empty; so the text and the
\* link an item end works on come from the events after the previous item end.
C18_ItemEndResetsItemState ==
    /\ LastConsumed("EndItem") =>
           /\ is_in_list_item = FALSE
           /\ current_item_text = <<>>
           /\ link_url = <<>>
    /\ LinkStartsSinceItemEnd(consumed) = {} => link_url = <<>>
    /\ \E k \in LastItemEnd(consumed)..Len(consumed) :
           current_item_text = ItemTextSince(consumed, k)

\* C18 witness: an item end just taken that produced no entry, for an item
\* that had text and a link.
C18_Witness ==
    /\ LastConsumed("EndItem")
    /\ current_section # None
    /\ current_section[1].entries = <<>>
    /\ LET before == SubSeq(consumed, 1, Len(consumed) - 1)
       IN  /\ LinkStartsSinceItemEnd(before) # {}
           /\ ItemTextSince(before, LastItemEnd(before)) # <<>>
    /\ is_in_list_item = FALSE
    /\ current_item_text = <<>>
    /\ link_url = <<>>

\* s has p in it, the case of the letters apart.
ContainsIgnoreCase(s, p) ==
    \E i \in 0..(Len(s) - Len(p)) :
        \A j \in 1..Len(p) : ToLowerChar(s[i + j]) = ToLowerChar(p[j])

\* The header has one of the exclusion patterns in it, the case apart.
ExcludedHeader(header) ==
    \E i \in 1..Len(exclusion_patterns) :
        ContainsIgnoreCase(header, exclusion_patterns[i])

\* The heading that is ending is of level 1 or excluded.
EndsIgnoredHeading ==
    /\ Consumes("EndHeading")
    /\ is_in_header
    /\ current_header_level = 1 \/ ExcludedHeader(Trim(header_text))

\* The step takes text outside a heading.
TakesBodyText ==
    /\ Consumes("Text") \/ Consumes("Code")
    /\ ~is_in_header

\* C19: the end of a heading of level 1 or excluded leaves the open section
\* open and the pushed sections as they are; text outside a heading goes to
\* the end of the raw_content of the open section, an entry to the end of its
\* entries; and while no section is open, no event other than a heading end
\* opens one or changes a pushed section.
C19_IgnoredHeadingKeepsSection ==
    [][/\ EndsIgnoredHeading =>
              /\ current_section' = current_section
              /\ readme_content'.sections = readme_content.sections
       /\ (TakesBodyText /\ current_section # None) =>
              /\ current_section' # None
              /\ current_section'[1] =
                     [current_section[1] EXCEPT
                         !.raw_content = @ \o consumed'[Len(consumed')].s]
              /\ readme_content'.sections = readme_content.sections
       /\ (Consumes("EndItem") /\ AddsEntry) =>
              /\ current_section'[1].title = current_section[1].title
              /\ readme_content'.sections = readme_content.sections
       /\ (pc = "parsing" /\ pc' = "parsing" /\ current_section = None
             /\ ~Consumes("EndHeading")) =>
              /\ current_section' = None
              /\ readme_content'.sections = <<>>]_vars

\* C19 witness: an included heading, then an ignored one, then an item: the
\* entry of the item is in the section of the first heading, still open.
C19_Witness ==
    /\ Len(Headings) = 2
    /\ Included(Headings[1])
    /\ ~Included(Headings[2])
    /\ readme_content.sections = <<>>
    /\ current_section # None
    /\ current_section[1].title = Headings[1].title
    /\ Len(current_section[1].entries) = 1
    /\ current_section[1].raw_content # <<>>

\* C20: should_parse_section(header) is false exactly when the header has one
\* of the exclusion patterns in it, the case of the letters apart; it is true
\* of every other header, in the known sections or the category words or not.
C20_OnlyExclusionsReject ==
    Called("should_parse_section") => (call.ret <=> ~ExcludedHeader(call.arg))

\* C20 witness: a header that is in neither list of allowed words and has no
\* exclusion pattern in it: true.
C20_Witness ==
    /\ Called("should_parse_section")
    /\ call.arg = <<"M","i","s","c">>
    /\ ~MatchesKnownSection(call.arg)
    /\ ~MatchesCategory(call.arg)
    /\ call.ret = TRUE
(***************************************************************************)
(* What the index of a returned catalog holds.                             *)
(***************************************************************************)
\* A location stands for an entry of the catalog: its indices are those of
\* an entry, its text is that entry's title or description according to its
\* priority, and its url is the entry's.
StandsForEntry(location, sections) ==
    /\ location.search_priority \in {RepositoryName, Description}
    /\ location.section_index < Len(sections)
    /\ location.entry_index # None
    /\ location.entry_index[1] < Len(sections[location.section_index + 1].entries)
    /\ LET entry == sections[location.section_index + 1].entries[location.entry_index[1] + 1]
       IN  /\ location.search_priority = RepositoryName =>
                   location.line_content = entry.title
           /\ location.search_priority = Description =>
                   location.line_content = entry.description
           /\ location.github_url = Some(entry.url)

\* C21: in the index of a catalog returned by parse, every location of every
\* term has priority RepositoryName or Description, never RawContent, the
\* indices of an entry of the catalog, that entry's full title or full
\* description as its text and that entry's url; none stands for a section
\* title or for raw section text.
C21_LocationsStandForEntries ==
    Returned =>
        \A term \in DOMAIN Catalog.search_index.terms :
            \A i \in 1..Len(Catalog.search_index.terms[term]) :
                StandsForEntry(Catalog.search_index.terms[term][i], Catalog.sections)

\* C21 witness: a returned catalog of two sections whose index holds a
\* location of each priority, one of them for an entry of the second section.
C21_Witness ==
    /\ Returned
    /\ Len(Catalog.sections) = 2
    /\ \E term, other \in DOMAIN Catalog.search_index.terms :
           /\ \E i \in 1..Len(Catalog.search_index.terms[term]) :
                  /\ Catalog.search_index.terms[term][i].search_priority = RepositoryName
                  /\ Catalog.search_index.terms[term][i].section_index = 1
           /\ \E j \in 1..Len(Catalog.search_index.terms[other]) :
                  Catalog.search_index.terms[other][j].search_priority = Description
\* The matching locations of a key that have priority RepositoryName.
NamedHitsOf(key) ==
    {h \in HitsOf(key) : h.location.search_priority = RepositoryName}

\* C22: a result of search whose key has a matching location of priority
\* RepositoryName shows that location's text, the entry title, in whatever
\* order the terms and the locations were visited; a result shows the text of
\* a Description location only when every matching location of its key has
\* priority Description.
C22_NameIsShownWhenItMatches ==
    SearchReturned =>
        \A i \in 1..Len(results) :
            LET key == ResultKey(results[i])
            IN  /\ \A h \in NamedHitsOf(key) :
                       results[i].line_content = h.location.line_content
                /\ (\E h \in HitsOf(key) :
                        /\ h.location.search_priority = Description
                        /\ results[i].line_content = h.location.line_content)
                       => NamedHitsOf(key) = {}

\* C22 witness: search has returned a result that shows the title although a
\* matching term holds, for its key, a Description location before the
\* RepositoryName one, so the description was visited first under that term.
C22_Witness ==
    /\ SearchReturned
    /\ \E i \in 1..Len(results) :
           \E term \in MatchingTerms :
               /\ Len(Self.terms[term]) >= 2
               /\ Self.terms[term][1].search_priority = Description
               /\ Self.terms[term][2].search_priority = RepositoryName
               /\ LocationKey(Self.terms[term][1]) = ResultKey(results[i])
               /\ LocationKey(Self.terms[term][2]) = ResultKey(results[i])
               /\ results[i].line_content = Self.terms[term][2].line_content
               /\ Cardinality(MatchingTerms) = 2
\* The list search returns when into_values yields the keys in the given order.
ReturnedFor(order) ==
    SortBy([i \in 1..Len(order) |-> entry_results[order[i]].result])

\* C23 (as claimed): search is reproducible: another call on the same index with
\* the same query, whatever the order in which its map yields the aggregated
\* results, returns the same ordered list.
C23_SearchIsReproducible ==
    SearchReturned =>
        \A order \in IterationOrders(DOMAIN entry_results) :
            ReturnedFor(order) = results
\* What follows "https://github.com/" in a url that starts with it.
AfterPrefix(url) == SubSeq(url, Len(GitHubPrefix) + 1, Len(url))

\* A path that begins with a non-empty segment, a '/', and a second non-empty
\* segment: owner/repository.
NamesOwnerAndRepository(path) ==
    \E i \in 2..(Len(path) - 1) :
        /\ path[i] = "/"
        /\ \A j \in 1..(i - 1) : path[j] # "/"
        /\ path[i + 1] # "/"

\* C24 (as claimed): every url is_github_link accepts has, after
\* "https://github.com/", a non-empty owner segment followed by a non-empty
\* repository segment.
C24_AcceptedUrlNamesOwnerAndRepository ==
    (Called("is_github_link") /\ call.ret = TRUE) =>
        NamesOwnerAndRepository(AfterPrefix(call.arg))
(***************************************************************************)
(* The application: App (app.rs), ListState and ThemeApplicator            *)
(* (models.rs) and the loop of run_app (main.rs).  The HttpClient is a     *)
(* collaborator: what fetch_readme and fetch_theme_colors return is chosen *)
(* among the answers they can give.                                        *)
(***************************************************************************)
MaxKeys == 4

UrlTokyo == GitHubPrefix \o <<"u","/","t","o","k","y","o">>
UrlNord == GitHubPrefix \o <<"u","/","n","o","r","d">>
UrlArctic == GitHubPrefix \o <<"u","/","a","r","c","t","i","c">>

\* A section with its entries counted.  raw_content, which App never reads, is
\* left empty.
SectionOf(title, entries) ==
    [title |-> title, entries |-> entries, raw_content |-> <<>>,
     entry_count |-> Len(entries)]

\* The sections of the README the client fetches, in order: one of themes and
\* one without entries.
ReadmeSections ==
    <<SectionOf(<<"T","h","e","m","e","s">>,
                <<extract_repository_entry(<<"T","o","k","y","o"," ","-"," ","d","a","r","k"," ","t","h","e","m","e">>, UrlTokyo),
                  extract_repository_entry(<<"N","o","r","d">>, UrlNord),
                  extract_repository_entry(<<"A","r","c","t","i","c"," ","-"," ","l","i","g","h","t"," ","t","h","e","m","e">>, UrlArctic)>>),
      SectionOf(<<"M","i","s","c">>, <<>>)>>

\* parse, lines 194-204, on given sections: the catalog with its index and count.
CatalogOf(sections) ==
    [sections |-> sections,
     search_index |-> build_search_index(sections),
     metadata |-> [DefaultMetadata EXCEPT !.total_entries = SumEntryCount(sections)]]

\* The catalogs fetch_readme can return: the README as it grew, section by section.
Catalogs ==
    {CatalogOf(SubSeq(ReadmeSections, 1, n)) : n \in 1..Len(ReadmeSections)}

\* HttpClient::fetch_readme: a catalog, or an error.
FetchOutcomes == {Ok(c) : c \in Catalogs} \cup {Err("fetch failed")}

\* ListState::new
ListStateNew == [selected_index |-> Some(0), offset |-> 0]

\* ListState::select
select(list_state, index) ==
    [selected_index |-> index,
     offset |-> IF index # None /\ index[1] < list_state.offset
                THEN index[1]
                ELSE list_state.offset]

\* ListState::select_first
select_first(list_state) == [selected_index |-> Some(0), offset |-> 0]

\* ListState::select_previous
select_previous(list_state, max_items) ==
    IF max_items = 0
    THEN [list_state EXCEPT !.selected_index = None]
    ELSE LET i == IF list_state.selected_index # None
                  THEN (IF list_state.selected_index[1] > 0
                        THEN list_state.selected_index[1] - 1
                        ELSE max_items - 1)
                  ELSE 0
         IN  [selected_index |-> Some(i),
              offset |-> IF i < list_state.offset THEN i ELSE list_state.offset]

\* usize::saturating_sub
saturating_sub(a, b) == IF a >= b THEN a - b ELSE 0

\* ListState::select_next
select_next(list_state, max_items) ==
    IF max_items = 0
    THEN [list_state EXCEPT !.selected_index = None]
    ELSE LET i == IF list_state.selected_index # None
                  THEN (IF list_state.selected_index[1] >= max_items - 1
                        THEN 0
                        ELSE list_state.selected_index[1] + 1)
                  ELSE 0
         IN  [selected_index |-> Some(i),
              offset |-> IF i >= list_state.offset + 10
                         THEN saturating_sub(i, 9)
                         ELSE IF i < list_state.offset
                              THEN i
                              ELSE list_state.offset]

\* load_readme, lines 71-91: the tabs of a catalog.
TabsOf(content) ==
    [n \in 1..Len(content.sections) |->
        [title |-> content.sections[n].title,
         section_index |-> n - 1,
         scroll_offset |-> 0,
         selected |-> (n - 1 = 0),
         list_state |-> IF content.sections[n].entries = <<>>
                        THEN [selected_index |-> None, offset |-> 0]
                        ELSE ListStateNew]]

\* load_readme without the validation of lines 93-96.
KeepCurrentTab(current_tab, tabs) == current_tab

\* load_readme, lines 93-96: current_tab, brought back within bounds.
ValidateCurrentTab(current_tab, tabs) ==
    IF current_tab >= Len(tabs) THEN 0 ELSE current_tab

\* load_readme, lines 98-100.
SelectCurrent(tabs, current_tab) ==
    IF tabs # <<>>
    THEN [tabs EXCEPT ![current_tab + 1].selected = TRUE]
    ELSE tabs

\* App::load_readme, on what fetch_readme answered.  The state is Loading
\* while the answer is awaited, and Ready or Error after it.
load_readme(a, fetched) ==
    IF fetched.tag = "Ok"
    THEN LET content == fetched.value[1]
             tabs == TabsOf(content)
             current_tab == ValidateCurrentTab(a.current_tab, tabs)
         IN  [a EXCEPT !.tabs = SelectCurrent(tabs, current_tab),
                       !.current_tab = current_tab,
                       !.readme_content = Some(content),
                       !.state = [tag |-> "Ready", message |-> ""]]
    ELSE [a EXCEPT !.state = [tag |-> "Error", message |-> fetched.error]]

\* next_tab
next_tab(a) ==
    IF a.tabs # <<>>
    THEN LET cleared == IF a.current_tab < Len(a.tabs)
                        THEN [a.tabs EXCEPT ![a.current_tab + 1].selected = FALSE]
                        ELSE a.tabs
             current_tab == (a.current_tab + 1) % Len(a.tabs)
         IN  [a EXCEPT !.tabs = [cleared EXCEPT ![current_tab + 1].selected = TRUE],
                       !.current_tab = current_tab]
    ELSE a

\* previous_tab
previous_tab(a) ==
    IF a.tabs # <<>>
    THEN LET cleared == IF a.current_tab < Len(a.tabs)
                        THEN [a.tabs EXCEPT ![a.current_tab + 1].selected = FALSE]
                        ELSE a.tabs
             current_tab == IF a.current_tab = 0
                            THEN Len(a.tabs) - 1
                            ELSE a.current_tab - 1
         IN  [a EXCEPT !.tabs = [cleared EXCEPT ![current_tab + 1].selected = TRUE],
                       !.current_tab = current_tab]
    ELSE a

\* list_next, list_previous, list_last: the condition of the if, the current
\* tab has a section and the section has entries.
HasEntries(a) ==
    /\ a.current_tab < Len(a.tabs)
    /\ a.readme_content # None
    /\ a.tabs[a.current_tab + 1].section_index < Len(a.readme_content[1].sections)
    /\ a.readme_content[1].sections[a.tabs[a.current_tab + 1].section_index + 1].entries # <<>>

\* The entries of the section of the current tab.
CurrentEntries(a) ==
    a.readme_content[1].sections[a.tabs[a.current_tab + 1].section_index + 1].entries

\* list_next
list_next(a) ==
    IF HasEntries(a)
    THEN [a EXCEPT !.tabs[a.current_tab + 1].list_state =
                       select_next(@, Len(CurrentEntries(a)))]
    ELSE a

\* list_previous
list_previous(a) ==
    IF HasEntries(a)
    THEN [a EXCEPT !.tabs[a.current_tab + 1].list_state =
                       select_previous(@, Len(CurrentEntries(a)))]
    ELSE a

\* list_first
list_first(a) ==
    IF a.current_tab < Len(a.tabs)
    THEN [a EXCEPT !.tabs[a.current_tab + 1].list_state = select_first(@),
                   !.tabs[a.current_tab + 1].scroll_offset = 0]
    ELSE a

\* list_last
list_last(a) ==
    IF HasEntries(a)
    THEN [a EXCEPT !.tabs[a.current_tab + 1].list_state =
                       select(@, Some(Len(CurrentEntries(a)) - 1))]
    ELSE a

\* page_up: list_previous, 5 times.
page_up(a) == list_previous(list_previous(list_previous(list_previous(list_previous(a)))))

\* page_down: list_next, 5 times.
page_down(a) == list_next(list_next(list_next(list_next(list_next(a)))))
RECURSIVE VisitTerms(_, _, _, _)
\* search, lines 105-146: the matching terms taken in the given order.
VisitTerms(index, q, order, er) ==
    IF order = <<>>
    THEN er
    ELSE VisitTerms(index, q, Tail(order),
                    VisitLocations(Head(order), q, index.terms[Head(order)], er))

\* SearchIndex::search as a whole: the lists it can return, one for each order
\* in which the two maps yield their keys.
search(index, q) ==
    LET matching == {term \in DOMAIN index.terms : Contains(term, ToLower(q))}
        aggregated == {VisitTerms(index, ToLower(q), order, EmptyMap) :
                          order \in IterationOrders(matching)}
    IN  UNION {{SortBy([i \in 1..Len(order) |-> er[order[i]].result]) :
                   order \in IterationOrders(DOMAIN er)} :
               er \in aggregated}

\* perform_search with Some(0) whatever the results.
SelectAlways(found) == Some(0)

\* perform_search, line 380: (!self.search_results.is_empty()).then_some(0)
SelectFirstIfAny(found) == IF found # <<>> THEN Some(0) ELSE None

\* perform_search: the Apps it can leave.
perform_search(a) ==
    IF a.readme_content = None
    THEN {a}
    ELSE IF Trim(a.search_query) = <<>>
         THEN {[a EXCEPT !.search_results = <<>>, !.search_selection = None]}
         ELSE {[a EXCEPT !.search_results = found,
                         !.search_selection = SelectFirstIfAny(found)] :
                  found \in search(a.readme_content[1].search_index, a.search_query)}

\* String::pop
Pop(s) == IF s = <<>> THEN s ELSE SubSeq(s, 1, Len(s) - 1)

\* KeyEvent: a key code, its character when the code is Char, and whether the
\* Control modifier is held: with Control, the two characters the handlers
\* test it on and one they do not.
Chars == {"j", "k", "h", "l", "r", "g", "t", "T", "q", "Q", "c", "f", "/", " "}
OtherCodes ==
    {"Esc", "Enter", "Down", "Up", "Backspace", "Tab", "BackTab", "PageUp",
     "PageDown", "Home", "End", "F1"}
ControlChars == {"c", "f", "t"}
KeyEvents ==
    [code : {"Char"}, c : Chars, ctrl : {FALSE}]
        \cup [code : {"Char"}, c : ControlChars, ctrl : {TRUE}]
        \cup [code : OtherCodes, c : {""}, ctrl : {FALSE}]

IsChar(key, c) == key.code = "Char" /\ key.c = c

\* handle_search_input: the Apps it can leave.
handle_search_input(a, key) ==
    IF key.code = "Esc"
    THEN {[a EXCEPT !.search_mode = FALSE,
                    !.search_query = <<>>,
                    !.search_results = <<>>,
                    !.search_selection = None]}
    ELSE IF key.code = "Enter"
    THEN {[a EXCEPT !.search_mode = FALSE, !.search_selection = None]}
    ELSE IF IsChar(key, "j") \/ key.code = "Down"
    THEN {IF a.search_results # <<>>
          THEN [a EXCEPT !.search_selection =
                    Some(IF @ # None /\ @[1] + 1 < Len(a.search_results)
                         THEN @[1] + 1
                         ELSE 0)]
          ELSE a}
    ELSE IF IsChar(key, "k") \/ key.code = "Up"
    THEN {IF a.search_results # <<>>
          THEN [a EXCEPT !.search_selection =
                    Some(IF @ # None /\ @[1] > 0
                         THEN @[1] - 1
                         ELSE Len(a.search_results) - 1)]
          ELSE a}
    ELSE IF key.code = "Backspace"
    THEN LET popped == [a EXCEPT !.search_query = Pop(@)]
         IN  IF popped.search_query # <<>>
             THEN perform_search(popped)
             ELSE {[popped EXCEPT !.search_results = <<>>,
                                  !.search_selection = None]}
    ELSE IF IsChar(key, "c") /\ key.ctrl
    THEN {[a EXCEPT !.quit = TRUE]}
    ELSE IF key.code = "Char"
    THEN perform_search([a EXCEPT !.search_query = Append(@, key.c)])
    ELSE {a}
\* extract_themes_from_readme, lines 346-354: the entries of one section that
\* are GitHub repositories, as theme entries.
ThemeEntriesOf(entries) ==
    LET IsRepository(entry) == is_github_link(entry.url)
        kept == SelectSeq(entries, IsRepository)
    IN  [i \in 1..Len(kept) |->
            [name |-> kept[i].title,
             url |-> kept[i].url,
             description |-> kept[i].description]]

RECURSIVE ThemesSectionEntries(_)
\* extract_themes_from_readme, lines 342-358: the loop over the sections, left
\* at the first one whose title contains "theme".
ThemesSectionEntries(sections) ==
    IF sections = <<>>
    THEN <<>>
    ELSE IF Contains(ToLower(Head(sections).title), <<"t","h","e","m","e">>)
         THEN ThemeEntriesOf(Head(sections).entries)
         ELSE ThemesSectionEntries(Tail(sections))

\* ReadmeParser::extract_themes_from_readme
extract_themes_from_readme(readme) ==
    IF ThemesSectionEntries(readme.sections) = <<>>
    THEN Err("No theme entries found in README")
    ELSE Ok(ThemesSectionEntries(readme.sections))

\* HttpClient::fetch_themes_from_readme: the themes of the catalog the client
\* has cached or fetches, or its error.
ThemeListOutcomes ==
    {IF fetched.tag = "Ok"
     THEN extract_themes_from_readme(fetched.value[1])
     ELSE fetched : fetched \in FetchOutcomes}

\* HttpClient::fetch_theme_colors: an error for a url that is no repository
\* url, else the theme with the colors of a file found in the repository or
\* the fallback theme of create_fallback_theme.
fetch_theme_colors(theme_entry) ==
    IF CountChar(theme_entry.url, "/") + 1 < 5 \/ ~StartsWith(theme_entry.url, GitHubPrefix)
    THEN {Err("Invalid GitHub URL")}
    ELSE {Ok([name |-> theme_entry.name,
              description |-> theme_entry.description,
              source_url |-> theme_entry.url,
              colors |-> "alacritty"]),
          Ok([name |-> theme_entry.name,
              description |-> theme_entry.description \o <<" ","(","f","a","l","l","b","a","c","k"," ","c","o","l","o","r","s",")">>,
              source_url |-> theme_entry.url,
              colors |-> "fallback"])}

\* ThemeApplicator::create_default_theme
create_default_theme ==
    [name |-> <<"D","e","f","a","u","l","t">>,
     description |-> <<"D","e","f","a","u","l","t"," ","T","U","I"," ","t","h","e","m","e">>,
     source_url |-> <<"b","u","i","l","t","i","n">>,
     colors |-> "default"]

\* ThemeApplicator::apply_theme
apply_theme(applicator, theme) ==
    [current_theme |-> Some(theme),
     original_theme |-> IF applicator.original_theme = None /\ ~applicator.is_applied
                        THEN Some(create_default_theme)
                        ELSE applicator.original_theme,
     is_applied |-> TRUE]

\* clear_theme resetting the flag alone.
ClearFlagOnly(applicator) == [applicator EXCEPT !.is_applied = FALSE]

\* ThemeApplicator::clear_theme
clear_theme(applicator) == DefaultThemeApplicator

\* open_theme_browser, lines 444-480: the themes shown, with placeholder colors.
PlaceholderThemes(entries) ==
    [i \in 1..Len(entries) |->
        [name |-> entries[i].name,
         description |-> entries[i].description,
         source_url |-> entries[i].url,
         colors |-> "placeholder"]]

\* open_theme_browser, on what fetch_themes_from_readme answers when asked.
open_theme_browser(a, listed) ==
    LET opened == [a EXCEPT !.theme_browser_mode = TRUE,
                            !.theme_browser.loading = TRUE,
                            !.theme_browser.error = None]
        shown ==
            IF opened.theme_entries = <<>>
            THEN IF listed.tag = "Ok"
                 THEN [opened EXCEPT
                          !.theme_entries = listed.value[1],
                          !.theme_browser.themes = PlaceholderThemes(listed.value[1]),
                          !.theme_browser.selected_index =
                              IF listed.value[1] # <<>> THEN Some(0) ELSE None,
                          !.theme_browser.filtered_themes = <<>>,
                          !.theme_browser.filtered_selected = None]
                 ELSE [opened EXCEPT !.theme_browser.error = Some(listed.error)]
            ELSE IF opened.theme_browser.selected_index = None
                    /\ opened.theme_browser.themes # <<>>
                 THEN [opened EXCEPT !.theme_browser.selected_index = Some(0),
                                     !.theme_browser.filtered_themes = <<>>,
                                     !.theme_browser.filtered_selected = None]
                 ELSE opened
    IN  [shown EXCEPT !.theme_browser.loading = FALSE]

\* close_theme_browser
close_theme_browser(a) ==
    [a EXCEPT !.theme_browser_mode = FALSE,
              !.theme_browser.preview_theme = None,
              !.theme_browser.search_mode = FALSE,
              !.theme_browser.search_query = <<>>,
              !.theme_browser.filtered_themes = <<>>,
              !.theme_browser.filtered_selected = None,
              !.preview_state = [tag |-> "None"],
              !.theme_applicator = clear_theme(@)]

\* load_and_apply_theme: the Apps it can leave.
load_and_apply_theme(a, theme_entry) ==
    {IF fetched.tag = "Ok"
     THEN [a EXCEPT !.theme_applicator = apply_theme(@, fetched.value[1]),
                    !.preview_state = [tag |-> "Applied", theme |-> fetched.value[1]],
                    !.theme_browser.preview_theme = Some(fetched.value[1])]
     ELSE [a EXCEPT !.preview_state = [tag |-> "Error"]] :
        fetched \in fetch_theme_colors(theme_entry)}

\* update_theme_search_filter, lines 622-628: the indices of the entries whose
\* lowercased name contains the lowercased query, in order.
FilterThemes(entries, query_text) ==
    LET Matches(i) == Contains(ToLower(entries[i + 1].name), ToLower(query_text))
    IN  SelectSeq([i \in 1..Len(entries) |-> i - 1], Matches)

\* update_theme_search_filter
update_theme_search_filter(a) ==
    IF Trim(a.theme_browser.search_query) = <<>>
    THEN [a EXCEPT !.theme_browser.filtered_themes = <<>>,
                   !.theme_browser.filtered_selected = None]
    ELSE LET filtered == FilterThemes(a.theme_entries, a.theme_browser.search_query)
         IN  [a EXCEPT !.theme_browser.filtered_themes = filtered,
                       !.theme_browser.filtered_selected =
                           IF filtered = <<>> THEN None ELSE Some(0)]

\* theme_browser_navigate_next
theme_browser_navigate_next(a) ==
    IF a.theme_entries # <<>>
    THEN [a EXCEPT !.theme_browser.selected_index =
             Some(IF @ # None /\ @[1] + 1 < Len(a.theme_entries) THEN @[1] + 1 ELSE 0)]
    ELSE a

\* theme_browser_navigate_previous
theme_browser_navigate_previous(a) ==
    IF a.theme_entries # <<>>
    THEN [a EXCEPT !.theme_browser.selected_index =
             Some(IF @ # None /\ @[1] > 0 THEN @[1] - 1 ELSE Len(a.theme_entries) - 1)]
    ELSE a

\* theme_search_navigate_next
theme_search_navigate_next(a) ==
    IF a.theme_browser.filtered_themes # <<>>
    THEN [a EXCEPT !.theme_browser.filtered_selected =
             Some(IF @ # None /\ @[1] + 1 < Len(a.theme_browser.filtered_themes)
                  THEN @[1] + 1
                  ELSE 0)]
    ELSE a

\* theme_search_navigate_previous
theme_search_navigate_previous(a) ==
    IF a.theme_browser.filtered_themes # <<>>
    THEN [a EXCEPT !.theme_browser.filtered_selected =
             Some(IF @ # None /\ @[1] > 0
                  THEN @[1] - 1
                  ELSE Len(a.theme_browser.filtered_themes) - 1)]
    ELSE a

\* theme_browser_apply_selected, lines 683-697: the index of the theme to apply.
SelectedThemeIndex(a) ==
    IF a.theme_browser.search_mode /\ a.theme_browser.filtered_themes # <<>>
    THEN IF a.theme_browser.filtered_selected # None
            /\ a.theme_browser.filtered_selected[1] < Len(a.theme_browser.filtered_themes)
         THEN Some(a.theme_browser.filtered_themes[a.theme_browser.filtered_selected[1] + 1])
         ELSE None
    ELSE a.theme_browser.selected_index

\* theme_browser_apply_selected: the Apps it can leave.
theme_browser_apply_selected(a) ==
    IF SelectedThemeIndex(a) # None /\ SelectedThemeIndex(a)[1] < Len(a.theme_entries)
    THEN load_and_apply_theme(a, a.theme_entries[SelectedThemeIndex(a)[1] + 1])
    ELSE {a}

\* handle_theme_search_input: the Apps it can leave.
handle_theme_search_input(a, key) ==
    IF key.code = "Esc"
    THEN {update_theme_search_filter(
              [a EXCEPT !.theme_browser.search_mode = FALSE,
                        !.theme_browser.search_query = <<>>,
                        !.theme_browser.filtered_themes = <<>>,
                        !.theme_browser.filtered_selected = None])}
    ELSE IF IsChar(key, "j") \/ key.code = "Down"
    THEN {theme_search_navigate_next(a)}
    ELSE IF IsChar(key, "k") \/ key.code = "Up"
    THEN {theme_search_navigate_previous(a)}
    ELSE IF key.code = "Enter"
    THEN theme_browser_apply_selected(a)
    ELSE IF key.code = "Backspace"
    THEN {update_theme_search_filter([a EXCEPT !.theme_browser.search_query = Pop(@)])}
    ELSE IF IsChar(key, "c") /\ key.ctrl
    THEN {[a EXCEPT !.quit = TRUE]}
    ELSE IF key.code = "Char"
    THEN {update_theme_search_filter(
              [a EXCEPT !.theme_browser.search_query = Append(@, key.c)])}
    ELSE {a}

\* handle_theme_browser_input: the Apps it can leave.
handle_theme_browser_input(a, key) ==
    IF a.theme_browser.search_mode
    THEN handle_theme_search_input(a, key)
    ELSE IF key.code = "Esc"
    THEN {close_theme_browser(a)}
    ELSE IF IsChar(key, "/")
    THEN {update_theme_search_filter(
              [a EXCEPT !.theme_browser.search_mode = TRUE,
                        !.theme_browser.search_query = <<>>])}
    ELSE IF IsChar(key, "j") \/ key.code = "Down"
    THEN {theme_browser_navigate_next(a)}
    ELSE IF IsChar(key, "k") \/ key.code = "Up"
    THEN {theme_browser_navigate_previous(a)}
    ELSE IF key.code = "Enter"
    THEN theme_browser_apply_selected(a)
    ELSE IF IsChar(key, "c") /\ key.ctrl
    THEN {[a EXCEPT !.quit = TRUE]}
    ELSE {a}

\* handle_normal_input: the Apps it can leave.
handle_normal_input(a, key) ==
    IF IsChar(key, "h")
    THEN {[a EXCEPT !.focus_area = "Sidebar"]}
    ELSE IF IsChar(key, "l")
    THEN {[a EXCEPT !.focus_area = "Content"]}
    ELSE IF key.code = "Tab"
    THEN {next_tab(a)}
    ELSE IF key.code = "BackTab"
    THEN {previous_tab(a)}
    ELSE IF IsChar(key, "j") \/ key.code = "Down"
    THEN {IF a.focus_area = "Sidebar" THEN next_tab(a) ELSE list_next(a)}
    ELSE IF IsChar(key, "k") \/ key.code = "Up"
    THEN {IF a.focus_area = "Sidebar" THEN previous_tab(a) ELSE list_previous(a)}
    ELSE IF IsChar(key, "r") \/ IsChar(key, "R")
    THEN {load_readme(a, fetched) : fetched \in FetchOutcomes}
    ELSE IF IsChar(key, "g") \/ IsChar(key, "G")
    THEN {a}
    ELSE IF IsChar(key, "/") \/ (IsChar(key, "f") /\ key.ctrl)
    THEN {[a EXCEPT !.search_mode = TRUE,
                    !.search_query = <<>>,
                    !.search_results = <<>>]}
    ELSE IF IsChar(key, "t") \/ IsChar(key, "T")
    THEN {open_theme_browser(a, listed) : listed \in ThemeListOutcomes}
    ELSE IF key.code = "PageUp"
    THEN {page_up(a)}
    ELSE IF key.code = "PageDown"
    THEN {page_down(a)}
    ELSE IF key.code = "Home"
    THEN {list_first(a)}
    ELSE IF key.code = "End"
    THEN {list_last(a)}
    ELSE IF key.code = "Enter"
    THEN {a}
    ELSE IF IsChar(key, "q") \/ IsChar(key, "Q") \/ (IsChar(key, "c") /\ key.ctrl)
    THEN {[a EXCEPT !.quit = TRUE]}
    ELSE IF key.code = "Esc"
    THEN {[a EXCEPT !.search_results = <<>>]}
    ELSE {a}

\* App::handle_key_event: the Apps it can leave.
handle_key_event(a, key) ==
    IF a.theme_browser_mode
    THEN handle_theme_browser_input(a, key)
    ELSE IF a.search_mode
         THEN handle_search_input(a, key)
         ELSE handle_normal_input(a, key)
\* The program before App::new: no parse, no search and no pure call in progress.
InitApp ==
    /\ markdown_content = <<>>
    /\ pending = <<>>
    /\ blocks_read = 0
    /\ consumed = <<>>
    /\ pc = "start"
    /\ InitLocals
    /\ result = Pending
    /\ InitSearch
    /\ InitCacheAndCall
    /\ app = NewApp
    /\ event = NoEvent
    /\ keys_read = 0
    /\ main_pc = "new"

\* The variables the program leaves alone: all but app, event, keys_read and
\* main_pc.
notAppVars ==
    <<markdown_content, lexVars, pc, parseVars, result, searchVars, cache, loaded, call>>

\* App::new, line 62: load_readme(false), and the program enters run_app.
AppNew ==
    /\ main_pc = "new"
    /\ \E fetched \in FetchOutcomes : app' = load_readme(app, fetched)
    /\ main_pc' = "loop"
    /\ UNCHANGED <<event, keys_read, notAppVars>>

\* run_app, after the select: the loop is left when should_quit.
AfterEvent(a) == IF a.quit THEN "exit" ELSE "loop"

\* run_app: the tick of the interval; on_tick does nothing.
OnTick ==
    /\ main_pc = "loop"
    /\ event' = [kind |-> "Tick"]
    /\ main_pc' = AfterEvent(app)
    /\ UNCHANGED <<app, keys_read, notAppVars>>

\* run_app: a Resize event, also what EventHandler::next gives on a timeout;
\* handle_resize does nothing.
OnResize ==
    /\ main_pc = "loop"
    /\ event' = [kind |-> "Resize"]
    /\ main_pc' = AfterEvent(app)
    /\ UNCHANGED <<app, keys_read, notAppVars>>

\* run_app: the keys the loop returns on before the App sees them.
ReturnsOn(key) == IsChar(key, "q") \/ (IsChar(key, "c") /\ key.ctrl)

\* run_app: a key event on which the loop returns.
OnKeyReturn ==
    /\ main_pc = "loop"
    /\ keys_read < MaxKeys
    /\ keys_read' = keys_read + 1
    /\ \E key \in KeyEvents :
          /\ ReturnsOn(key)
          /\ event' = [kind |-> "Key", key |-> key]
    /\ main_pc' = "exit"
    /\ UNCHANGED <<app, notAppVars>>

\* run_app: any other key event, handed to handle_key_event.  The key events
\* are kept within MaxKeys.
OnKey ==
    /\ main_pc = "loop"
    /\ keys_read < MaxKeys
    /\ keys_read' = keys_read + 1
    /\ \E key \in KeyEvents :
          /\ ~ReturnsOn(key)
          /\ event' = [kind |-> "Key", key |-> key]
          /\ \E a \in handle_key_event(app, key) :
                /\ app' = a
                /\ main_pc' = AfterEvent(a)
    /\ UNCHANGED notAppVars

NextApp ==
    \/ AppNew
    \/ OnTick
    \/ OnResize
    \/ OnKeyReturn
    \/ OnKey

SpecApp == InitApp /\ [][NextApp]_vars
(***************************************************************************)
(* What the claims on the application speak of.                            *)
(***************************************************************************)
\* A step of run_app that takes a key event; the key is then event'.key.
KeyStep == main_pc = "loop" /\ keys_read' = keys_read + 1

\* The App is in normal mode: neither the theme browser nor the search is on.
NormalMode(a) == ~a.theme_browser_mode /\ ~a.search_mode

\* The App is in search mode, the theme browser being closed.
SearchMode(a) == ~a.theme_browser_mode /\ a.search_mode

\* A step that is a reload, on the key r in normal mode or in App::new, and
\* whose fetch failed.
FailedReload ==
    /\ \/ main_pc = "new"
       \/ KeyStep /\ NormalMode(app) /\ IsChar(event'.key, "r")
    /\ app'.state.tag = "Error"

\* One tab per section of the loaded catalog, in order, and current_tab an
\* index into the tabs when there are any.
TabsMatchCatalog ==
    /\ app.readme_content # None =>
           /\ Len(app.tabs) = Len(app.readme_content[1].sections)
           /\ \A n \in 1..Len(app.tabs) : app.tabs[n].section_index = n - 1
    /\ app.tabs # <<>> => app.current_tab < Len(app.tabs)

\* C25: at every point of the run, whatever the key events and the reloads
\* before it, a loaded catalog has exactly one tab per section, with
\* tabs[i].section_index = i, and current_tab is an index into tabs when tabs is
\* not empty; a reload that fails changes nothing of the App but its state,
\* which becomes Error: tabs, current_tab and the catalog stay as they were.
C25_TabsFollowTheCatalog ==
    /\ [](TabsMatchCatalog)
    /\ [][FailedReload =>
              /\ app'.tabs = app.tabs
              /\ app'.current_tab = app.current_tab
              /\ app'.readme_content = app.readme_content
              /\ app' = [app EXCEPT !.state = app'.state]]_vars

\* C25 witness: the last tab of a catalog of two sections is current, and the
\* reload just asked for with r has failed: the catalog and its tabs are kept.
C25_Witness ==
    /\ main_pc = "loop"
    /\ event.kind = "Key"
    /\ IsChar(event.key, "r")
    /\ app.state.tag = "Error"
    /\ app.readme_content # None
    /\ Len(app.tabs) = 2
    /\ app.current_tab = 1
\* search_selection is absent or an index into search_results, and absent
\* when there are no results.
SelectionWithinResults ==
    /\ app.search_selection # None =>
           app.search_selection[1] < Len(app.search_results)
    /\ app.search_results = <<>> => app.search_selection = None

\* A step of search mode that edits the query: a character pushed or popped.
QueryEdit ==
    /\ KeyStep
    /\ SearchMode(app)
    /\ app'.search_query # app.search_query
    /\ app'.search_mode

\* C26: in every state of the App search_selection is absent or an index
\* smaller than the length of search_results, and absent when search_results
\* is empty; right after an edit of the query that left at least one result
\* it is Some(0).
C26_SelectionWithinResults ==
    /\ [](SelectionWithinResults)
    /\ [][(QueryEdit /\ app'.search_results # <<>>) =>
              app'.search_selection = Some(0)]_vars

\* C26 witness: in search mode the character t was just pushed, the query "t"
\* has several results and the first is selected.
C26_Witness ==
    /\ main_pc = "loop"
    /\ SearchMode(app)
    /\ event.kind = "Key"
    /\ IsChar(event.key, "t")
    /\ app.search_query = <<"t">>
    /\ Len(app.search_results) >= 2
    /\ app.search_selection = Some(0)
\* The entries of the section a tab shows; none when the catalog has no such
\* section.
EntriesOfTab(tab) ==
    IF app.readme_content # None
          /\ tab.section_index < Len(app.readme_content[1].sections)
    THEN app.readme_content[1].sections[tab.section_index + 1].entries
    ELSE <<>>

\* C27 (as claimed): whatever the navigation keys and the reloads before it, the
\* selected_index of the list_state of every tab is absent or an index into
\* the entries of the section of the tab; it is never present for a section
\* that has no entries.
C27_SelectedIndexWithinEntries ==
    \A n \in 1..Len(app.tabs) :
        app.tabs[n].list_state.selected_index # None =>
            app.tabs[n].list_state.selected_index[1] < Len(EntriesOfTab(app.tabs[n]))

\* A step of the theme browser's search mode, the query not blank, that takes
\* the key Enter.
EnterOnThemeQuery ==
    /\ KeyStep
    /\ app.theme_browser_mode
    /\ app.theme_browser.search_mode
    /\ Trim(app.theme_browser.search_query) # <<>>
    /\ event'.key.code = "Enter"

\* The name contains the query, whatever the case of the letters.
NameMatches(name, query_text) ==
    HasSubstring(ToLower(name), ToLower(query_text))

\* C28 (as claimed): in the search mode of the theme browser, the query not
\* blank, Enter applies only a theme whose name contains the query, whatever
\* the case of the letters; when no theme matches the query it applies none.
C28_EnterAppliesOnlyAMatch ==
    [][EnterOnThemeQuery =>
          \/ app' = app
          \/ /\ app'.theme_applicator.current_theme # None
             /\ NameMatches(app'.theme_applicator.current_theme[1].name,
                            app.theme_browser.search_query)]_vars

\* A step of search mode that takes the key of a character, Control not held.
PlainCharInSearch ==
    /\ KeyStep
    /\ SearchMode(app)
    /\ event'.key.code = "Char"
    /\ ~event'.key.ctrl

\* C29 (as claimed): in search mode the key of a printable character, Control
\* not held, never ends the program: the character is appended to the query,
\* or, for j and k, the selection moves; the program leaves its loop from
\* search mode on Ctrl-C only.
C29_PlainCharacterNeverQuits ==
    [][/\ PlainCharInSearch =>
              /\ main_pc' = "loop"
              /\ IF event'.key.c \in {"j", "k"}
                 THEN app'.search_query = app.search_query
                 ELSE app'.search_query = Append(app.search_query, event'.key.c)
       /\ (KeyStep /\ SearchMode(app) /\ main_pc' = "exit") =>
              (IsChar(event'.key, "c") /\ event'.key.ctrl)]_vars

\* is_applied tells whether a theme is current, and with the theme browser
\* closed nothing is applied or previewed.
NoThemeOutsideBrowser ==
    /\ app.theme_applicator.is_applied <=> app.theme_applicator.current_theme # None
    /\ ~app.theme_browser_mode =>
           /\ ~app.theme_applicator.is_applied
           /\ app.theme_applicator.current_theme = None
           /\ app.theme_applicator.original_theme = None
           /\ app.theme_browser.preview_theme = None
           /\ app.preview_state.tag = "None"

\* C30: in every state of the App is_applied holds exactly when current_theme
\* is present; when the theme browser is closed no theme is applied:
\* is_applied is false, current_theme, original_theme and preview_theme are
\* absent and preview_state is None.  A step that closes the browser with a
\* theme applied clears them all.
C30_NoThemeOutsideBrowser ==
    /\ [](NoThemeOutsideBrowser)
    /\ [][(app.theme_applicator.is_applied /\ ~app'.theme_browser_mode) =>
              app'.theme_applicator = DefaultThemeApplicator]_vars

\* C30 witness: in the theme browser the second theme has been applied on
\* Enter: it is current and previewed, and the default theme is kept as the
\* original; Esc, which can still be taken, closes the browser and clears them.
C30_Witness ==
    /\ main_pc = "loop"
    /\ app.theme_browser_mode
    /\ event.kind = "Key"
    /\ event.key.code = "Enter"
    /\ app.theme_applicator.is_applied
    /\ app.theme_applicator.current_theme # None
    /\ app.theme_applicator.current_theme[1].name = <<"N","o","r","d">>
    /\ app.theme_applicator.original_theme = Some(create_default_theme)
    /\ app.theme_browser.preview_theme = app.theme_applicator.current_theme
    /\ app.preview_state.tag = "Applied"
    /\ keys_read < MaxKeys

====
